---- MODULE Spec2Model ----
(***************************************************************************)
(* Model of the GoB bridge between the mesh editor (src/gob_bl.py) and the *)
(* texturing application (src/gob_sp.py): project-directory resolver,      *)
(* manifest store, link registry, active-session heartbeat and the         *)
(* auto-import poll of the receiving side.                                  *)
(*                                                                         *)
(* One handler of the code (timer tick, operator, callback) is one action. *)
(* A modal result dialog (show_message -> QMessageBox.exec) runs a nested  *)
(* event loop: the handler that opened it is suspended on `stack` and      *)
(* timer ticks and reload callbacks run before it is closed.               *)
(* File writes are taken to succeed; one bridge root is modelled in the    *)
(* state-machine specifications.                                           *)
(***************************************************************************)
EXTENDS Integers, Sequences, FiniteSets, TLC

VARIABLES
    now,        \* time.time(), in seconds
    seq,        \* number of manifests exported so far (orders export timestamps)
    dirs,       \* project directories that exist under the bridge root
    man,        \* man[d]: the manifest file d/.gob_meta/bridge.json
    order,      \* manifest files by modification time, newest last
    meshes,     \* directories that hold the exported mesh b2sp.fbx
    pset,       \* pset[d]: d/.gob_meta/gob_sp_project_settings.json
    reg,        \* project_links.json of the primary root
    hbBl,       \* active_blender.json in the bridge root
    hbSp,       \* active_sp.json in the bridge root
    hbSpDir,    \* hbSpDir[d]: d/.gob_meta/active_sp.json
    blFile,     \* bpy.data.filepath ("" = unsaved)
    blCache,    \* gob_bl._project_dir_cache
    blLast,     \* gob_bl._last_blender_file ("?" = None)
    blSession,  \* incarnation of the mesh-editor process (temp_session_id)
    spOpen,     \* sp.project.is_open()
    spPath,     \* sp.project file path ("" = unsaved)
    spToken,    \* gob_sp._force_new_token
    spCache,    \* gob_sp._project_dir_cache
    spLast,     \* gob_sp._last_sp_project_file ("?" = None)
    spSession,  \* incarnation of the texturing process (temp_session_id)
    inProgress, \* _auto_import_in_progress
    busyUntil,  \* _auto_import_busy_until
    lastTime,   \* _auto_import_last_time
    lastPath,   \* _auto_import_last_path (NoDir = None)
    lastScan,   \* _auto_import_last_scan
    lastActiveWrite, \* _auto_import_last_active_write
    pending,    \* closure of the reload_mesh call in flight
    stack,      \* handlers suspended in a modal dialog, innermost last
    resLog,     \* directories each identity resolved to in this process lifetime
    rd,         \* result of the last heartbeat read
    cnt,        \* per export timestamp: actions the poll started / finished
    highs,      \* directories that hold the exported high-poly mesh b2sp_hi.fbx
    hp,         \* the high-poly retry timer, the connected ready-state handlers
                \* and the HipolyMesh baking parameter
    roots,      \* what the bridge root is resolved from: the environment
                \* variable, the preference bridge_dir, the hint files; and the
                \* registry file of the second root
    peer,       \* the document and the module globals of a second instance of
                \* the texturing application that polls the same bridge root
    regio,      \* per side: the registry data an update_link_registry call has
                \* loaded and not saved yet, with the call's arguments
    temps       \* per side: the module global _temp_blender_file or
                \* _temp_sp_project_file (name "" = None)

vars == <<now, seq, dirs, man, order, meshes, pset, reg, hbBl, hbSp, hbSpDir,
          blFile, blCache, blLast, blSession,
          spOpen, spPath, spToken, spCache, spLast, spSession,
          inProgress, busyUntil, lastTime, lastPath, lastScan, lastActiveWrite,
          pending, stack, resLog, rd, cnt, highs, hp, roots, peer, regio,
          temps>>

-----------------------------------------------------------------------------
(* Bounds of the model *)

MaxSuffix == 3      \* numeric suffixes tried by unique_project_dir
MaxSends == 2       \* exports by the mesh editor
MaxReturns == 1     \* exports by the texturing application
MaxOverlaps == 1    \* exports by the mesh editor while a reload is in flight
MaxTime == 5        \* seconds the clock advances in the state-machine model
MaxStack == 1       \* nested modal dialogs
MaxStarts == 3      \* reload/create actions counted per manifest
MaxHandlers == 2    \* ProjectEditionEntered handlers connected at a time

(* Program constants *)

ACTIVE_BLENDER_INFO_MAX_AGE == 120
ACTIVE_SP_INFO_MAX_AGE == 120
AUTO_IMPORT_SCAN_COOLDOWN == 5
AUTO_IMPORT_ACTIVE_WRITE_INTERVAL == 5
BUSY_BACKOFF == 2
HIGH_POLY_RETRY_COUNT == 60
StartTime == 10     \* the clock at Init; time.time() is never near 0
TickStep == 5       \* seconds between two observations of the clock

-----------------------------------------------------------------------------
(* Paths.  Strings are opaque to TLC, so the path functions are tables over *)
(* the finite universe of paths the model uses.                             *)

BlDocs == {"/doc.ext", "/other.ext", "/x/doc.ext"}
SpDocs == {"/a.spp", "/b.spp"}
BlTemps == {"bl_tmp1", "bl_tmp2"}
SpTemps == {"sp_tmp1", "sp_tmp2"}
BlKeys == BlDocs \cup BlTemps
SpKeys == SpDocs \cup SpTemps
\* normalize_path(...).lower(): case variants of one path share a key
normalize_path_key(p) ==
    CASE p = "/DOC.ext" -> "/doc.ext"
      [] p = "/Other.ext" -> "/other.ext"
      [] p = "/A.spp" -> "/a.spp"
      [] p = "/B.spp" -> "/b.spp"
      [] OTHER -> p

paths_match(l, r) ==
    /\ l # ""
    /\ r # ""
    /\ normalize_path_key(l) = normalize_path_key(r)

\* Path(p).stem of a document path
Stem(p) ==
    CASE p \in {"/doc.ext", "/x/doc.ext", "/DOC.ext"} -> "doc"
      [] p \in {"/other.ext", "/Other.ext"} -> "other"
      [] p \in {"/a.spp", "/A.spp"} -> "a"
      [] p \in {"/b.spp", "/B.spp"} -> "b"
      [] OTHER -> ""

sanitize_name(n) == IF n = "" THEN "untitled" ELSE n

Names == {"doc", "other", "untitled", "a", "b"}
Dir == Names \X (0..(MaxSuffix + 1))
NoDir == <<"", 0>>
BaseDir(name) == <<name, 0>>

temp_blender_file_path(session) == IF session = 1 THEN "bl_tmp1" ELSE "bl_tmp2"
temp_sp_project_file_path(session) == IF session = 1 THEN "sp_tmp1" ELSE "sp_tmp2"

-----------------------------------------------------------------------------
(* Records on disk *)

NoManifest ==
    [exists |-> FALSE, source |-> "", blender_file |-> "", sp_project_file |-> "",
     project |-> "", auto_import |-> FALSE, ts |-> 0, force_new |-> FALSE,
     token |-> "", high |-> NoDir, high_exported |-> "", json |-> "object",
     link_sp |-> "", meta |-> FALSE, legacy |-> "none"]

NoInfo ==
    [exists |-> FALSE, ts |-> 0, open |-> FALSE, name |-> "", dir |-> NoDir,
     sp_file |-> "", bl_file |-> ""]

NoSettings == [linked |-> "", force_new |-> FALSE]

\* closure of a reload_mesh call: the manifest as read when the import began
NoPending ==
    [active |-> FALSE, dir |-> NoDir, m |-> NoManifest, clear |-> FALSE,
     attempted_fallback |-> FALSE, high |-> NoDir, calls |-> <<>>]

\* _high_poly_retry_path, _high_poly_retry_remaining and whether the timer is
\* active; the connected _on_enter handlers, oldest first, each with the path
\* its closure holds (NoDir for the handler that clears); the HipolyMesh
\* parameter.  attached, tries and want are records of the run: the paths
\* attached in the last step, the timer-driven attempts since the last queue
\* request, and the high-poly mesh of the manifest imported last.
NoHighPoly ==
    [path |-> NoDir, remaining |-> 0, running |-> FALSE, enter |-> <<>>,
     mesh |-> NoDir, attached |-> {}, tries |-> 0, want |-> NoDir]

NoCount == [started |-> 0, failed |-> 0, succeeded |-> 0]

\* no heartbeat read yet
NoRead == [reader |-> "none", at |-> 0, info |-> NoInfo, file |-> NoInfo]

EmptyRegistry ==
    [s2b |-> [k \in SpKeys |-> ""], b2s |-> [k \in BlKeys |-> ""]]

\* the newest element of `order` that lies in `ok`, NoDir when there is none
RECURSIVE LatestFrom(_, _, _)
LatestFrom(o, i, ok) ==
    IF i = 0 THEN NoDir
    ELSE IF o[i] \in ok THEN o[i]
    ELSE LatestFrom(o, i - 1, ok)

Latest(o, ok) == LatestFrom(o, Len(o), ok)

\* a write of manifest file d makes it the newest
Touch(o, d) == SelectSeq(o, LAMBDA x : x # d) \o <<d>>

-----------------------------------------------------------------------------
(* The bridge root.  DefaultRoot is the GoB_SP_Bridge folder of the user's  *)
(* documents, which default_bridge_dir and documents_bridge_root compute on  *)
(* both sides; "/custom" is any other folder.  A hint file is missing,       *)
(* malformed ("torn"), an object without a root ("{}") or names a root.      *)

DefaultRoot == "/docs"
Roots == {DefaultRoot, "/custom"}

\* env: the variable GOB_SP_BRIDGE_DIR ("" = unset); pref: the preference
\* bridge_dir of the mesh editor; hintAt[r]: the hint file in root r; shared:
\* the hint file of the shared location; made: the roots that exist as
\* folders; links: the registry file of "/custom", when there is one
NoRoots ==
    [env |-> "", pref |-> DefaultRoot, hintAt |-> [r \in Roots |-> "missing"],
     shared |-> "missing", made |-> {},
     links |-> [file |-> FALSE, data |-> EmptyRegistry]]

\* default_bridge_dir, the same on both sides
default_bridge_dir(r) == IF r.env # "" THEN r.env ELSE DefaultRoot

\* read_bridge_root_hint(path) of the mesh editor: the root a hint file names
read_bridge_root_hint(content) == IF content \in Roots THEN content ELSE ""

\* read_bridge_root_hint() of the receiving side: the hint file of the default
\* folder, then the shared one
sp_read_bridge_root_hint(r) ==
    IF read_bridge_root_hint(r.hintAt[default_bridge_dir(r)]) # ""
    THEN read_bridge_root_hint(r.hintAt[default_bridge_dir(r)])
    ELSE read_bridge_root_hint(r.shared)

sp_get_bridge_root(r) ==
    IF r.env # "" THEN r.env
    ELSE IF sp_read_bridge_root_hint(r) # "" THEN sp_read_bridge_root_hint(r)
    ELSE default_bridge_dir(r)

bl_get_bridge_root(r) ==
    IF r.env # "" THEN r.env
    ELSE IF r.pref # "" THEN r.pref
    ELSE default_bridge_dir(r)

\* a placeholder path: `parent` is the root whose .gob_temp folder holds the
\* file, `name` the file name
NoTempFile == [parent |-> "", name |-> ""]

\* temp_blender_file_path / temp_sp_project_file_path with the module global
\* `cached`: the global is returned when it is set, else the path under
\* bridge_temp_dir() of the root resolved now
temp_file_path_cached(cached, root, name) ==
    IF cached.name # "" THEN cached ELSE [parent |-> root, name |-> name]

\* is_temp_file: the name has the prefix and the suffix (it is one of
\* `names`) and the parent is bridge_temp_dir() of the root resolved now
is_temp_file(path, names, root) ==
    /\ path.name # ""
    /\ path.name \in names
    /\ path.parent = root

\* write_bridge_root_hint(root_path)
write_bridge_root_hint(r, root_path) ==
    [r EXCEPT !.hintAt[default_bridge_dir(r)] = root_path, !.shared = root_path]

\* a candidate list that holds both hints
both_hints(r) ==
    {r.env, read_bridge_root_hint(r.hintAt[default_bridge_dir(r)]),
     read_bridge_root_hint(r.shared), DefaultRoot} \ {""}

\* get_candidate_bridge_roots of the receiving side, as a set: the
\* environment variable, the one hint read_bridge_root_hint() returns, and
\* the documents folders
sp_get_candidate_bridge_roots(r) ==
    {r.env, sp_read_bridge_root_hint(r), DefaultRoot} \ {""}

\* get_candidate_bridge_roots of the mesh-editor side: the environment
\* variable, the preference, both hints, and the documents folders
bl_get_candidate_bridge_roots(r) ==
    {r.env, r.pref, read_bridge_root_hint(r.hintAt[default_bridge_dir(r)]),
     read_bridge_root_hint(r.shared), DefaultRoot} \ {""}

\* link_registry_paths: the documents root, then the candidate roots that
\* exist, each once
sp_link_registry_paths(r) ==
    IF "/custom" \in r.made /\ "/custom" \in sp_get_candidate_bridge_roots(r)
    THEN <<DefaultRoot, "/custom">> ELSE <<DefaultRoot>>

bl_link_registry_paths(r) ==
    IF "/custom" \in r.made /\ "/custom" \in bl_get_candidate_bridge_roots(r)
    THEN <<DefaultRoot, "/custom">> ELSE <<DefaultRoot>>

\* load_link_registry: the first registry file on the list that exists; the
\* file of the documents root exists once it has been written
load_link_registry(w, paths) ==
    IF w.reg # EmptyRegistry THEN w.reg
    ELSE IF Len(paths) > 1 /\ w.roots.links.file THEN w.roots.links.data
    ELSE EmptyRegistry

\* a save that writes the first file only
save_primary_only(w, data, paths) ==
    [w EXCEPT !.reg = data, !.roots.made = @ \cup {DefaultRoot}]

\* save_link_registry: the first file is written, the others where they exist
save_link_registry(w, data, paths) ==
    [w EXCEPT !.reg = data,
              !.roots.made = @ \cup {DefaultRoot},
              !.roots.links = IF Len(paths) > 1 /\ @.file
                              THEN [file |-> TRUE, data |-> data]
                              ELSE @]

-----------------------------------------------------------------------------
(* The state as one record, so that the sequential code of a handler is a  *)
(* composition of record transformers.  `ret` carries a return value.      *)

World ==
    [now |-> now, seq |-> seq, dirs |-> dirs, man |-> man, order |-> order,
     meshes |-> meshes, pset |-> pset, reg |-> reg, hbBl |-> hbBl, hbSp |-> hbSp,
     hbSpDir |-> hbSpDir, blFile |-> blFile, blCache |-> blCache,
     blLast |-> blLast, blSession |-> blSession, spOpen |-> spOpen,
     spPath |-> spPath,
     spToken |-> spToken, spCache |-> spCache, spLast |-> spLast,
     spSession |-> spSession, inProgress |-> inProgress, busyUntil |-> busyUntil,
     lastTime |-> lastTime, lastPath |-> lastPath, lastScan |-> lastScan,
     lastActiveWrite |-> lastActiveWrite, pending |-> pending, stack |-> stack,
     resLog |-> resLog, rd |-> rd, cnt |-> cnt, highs |-> highs, roots |-> roots,
     peer |-> peer, regio |-> regio, temps |-> temps,
     hp |-> [hp EXCEPT !.attached = {}], hpref |-> "off", ret |-> NoDir,
     info |-> NoInfo, flag |-> FALSE, dlg |-> FALSE, act |-> "none",
     closed |-> FALSE, mdir |-> NoDir, called |-> FALSE, seen |-> NoManifest,
     exc |-> FALSE, calls |-> <<>>]

Commit(w) ==
    /\ \A d \in w.dirs : d[2] <= MaxSuffix
    /\ Len(w.stack) <= MaxStack
    /\ Len(w.hp.enter) <= MaxHandlers
    /\ \A t \in DOMAIN w.cnt.n : w.cnt.n[t].started <= MaxStarts
    /\ now' = w.now
    /\ seq' = w.seq
    /\ dirs' = w.dirs
    /\ man' = w.man
    /\ order' = w.order
    /\ meshes' = w.meshes
    /\ pset' = w.pset
    /\ reg' = w.reg
    /\ hbBl' = w.hbBl
    /\ hbSp' = w.hbSp
    /\ hbSpDir' = w.hbSpDir
    /\ blFile' = w.blFile
    /\ blCache' = w.blCache
    /\ blLast' = w.blLast
    /\ blSession' = w.blSession
    /\ spOpen' = w.spOpen
    /\ spPath' = w.spPath
    /\ spToken' = w.spToken
    /\ spCache' = w.spCache
    /\ spLast' = w.spLast
    /\ spSession' = w.spSession
    /\ inProgress' = w.inProgress
    /\ busyUntil' = w.busyUntil
    /\ lastTime' = w.lastTime
    /\ lastPath' = w.lastPath
    /\ lastScan' = w.lastScan
    /\ lastActiveWrite' = w.lastActiveWrite
    /\ pending' = w.pending
    /\ stack' = w.stack
    /\ resLog' = w.resLog
    /\ rd' = w.rd
    /\ cnt' = w.cnt
    /\ highs' = w.highs
    /\ hp' = w.hp
    /\ roots' = w.roots
    /\ peer' = w.peer
    /\ regio' = w.regio
    /\ temps' = w.temps

\* ensure_dir(project_dir) and ensure_dir(project_dir/.gob_meta)
ensure_dir(w, d) == [w EXCEPT !.dirs = @ \cup {d}]

\* write_manifest(project_manifest_path(d), m), after ensure_dir of its parent:
\* the file in the metadata folder is (re)written, a file at the legacy
\* location stays as it is
write_manifest(w, d, m) ==
    [w EXCEPT !.dirs = @ \cup {d},
              !.man[d] = [m EXCEPT !.exists = TRUE, !.meta = TRUE,
                                   !.legacy = w.man[d].legacy],
              !.order = Touch(@, d)]

\* write_manifest(manifest_path, m) with the path the manifest was read from:
\* the legacy file when the directory holds no file in the metadata folder
write_manifest_in_place(w, d, m) ==
    IF w.man[d].meta THEN write_manifest(w, d, m)
    ELSE [w EXCEPT !.man[d] = [m EXCEPT !.exists = TRUE, !.meta = FALSE,
                                        !.legacy = "rewritten"],
                   !.order = Touch(@, d)]

\* every resolver result is logged against the identity that was resolved
LogResolve(w, id, d) ==
    IF id = "" THEN w
    ELSE [w EXCEPT !.resLog[normalize_path_key(id)] = @ \cup {d}]

Ret(w, d) == [w EXCEPT !.ret = d]

-----------------------------------------------------------------------------
(* Mesh-editor side: src/gob_bl.py *)

bl_get_project_name(w) ==
    IF w.blFile # "" THEN sanitize_name(Stem(w.blFile)) ELSE "untitled"

get_blender_file_path_or_temp(w) ==
    IF w.blFile # "" THEN w.blFile ELSE temp_blender_file_path(w.blSession)

is_temp_blender_file(p) == p \in BlTemps
is_temp_sp_project_file(p) == p \in SpTemps

\* Path(sp_project_file).is_file(): a saved project file stays on disk
sp_file_on_disk(p) == normalize_path_key(p) \in SpDocs

bl_cached_project_dir(w, f) ==
    IF f = "" THEN NoDir ELSE w.blCache[normalize_path_key(f)]

bl_set_cached_project_dir(w, f, d) ==
    IF f = "" \/ d = NoDir THEN w
    ELSE [w EXCEPT !.blCache[normalize_path_key(f)] = d]

manifest_matches_blender_file(m, f) ==
    /\ m.exists
    /\ f # ""
    /\ paths_match(m.blender_file, f)

find_manifest_for_blender_file(w, f) ==
    IF f = "" THEN NoDir
    ELSE Latest(w.order, {d \in w.dirs : w.man[d].exists
                                          /\ paths_match(w.man[d].blender_file, f)})

find_manifest_for_sp_project_file(w, s) ==
    IF s = "" THEN NoDir
    ELSE Latest(w.order, {d \in w.dirs : w.man[d].exists
                                          /\ paths_match(w.man[d].sp_project_file, s)})

\* every export carries the same set of object names, so a manifest written
\* by an export of this document always has the signature looked for
find_manifest_for_mesh_signature(w, f) ==
    IF f = "" THEN NoDir
    ELSE Latest(w.order, {d \in w.dirs : /\ w.man[d].exists
                                          /\ w.man[d].source = "blender"
                                          /\ paths_match(w.man[d].blender_file, f)})

find_latest_saved_sp_project_for_blender(w, f) ==
    (LET d == IF f = "" THEN NoDir
               ELSE Latest(w.order,
                           {x \in w.dirs : /\ w.man[x].exists
                                           /\ paths_match(w.man[x].blender_file, f)
                                           /\ w.man[x].sp_project_file # ""
                                           /\ ~is_temp_sp_project_file(w.man[x].sp_project_file)
                                           /\ sp_file_on_disk(w.man[x].sp_project_file)})
     IN  IF d = NoDir THEN "" ELSE w.man[d].sp_project_file)

project_dir_from_linked_sp(w, f) ==
    IF f = "" THEN NoDir
    ELSE (LET s == load_link_registry(w, bl_link_registry_paths(w.roots)).b2s[normalize_path_key(f)]
          IN  IF s = "" THEN NoDir ELSE find_manifest_for_sp_project_file(w, s))

\* a suffix search that stops at the first candidate, taken or not
first_candidate(w, name, index, f) == <<name, index>>

RECURSIVE bl_unique_from(_, _, _, _)
bl_unique_from(w, name, index, f) ==
    IF index > MaxSuffix + 1 THEN NoDir
    ELSE LET candidate == <<name, index>>
         IN IF candidate \in w.dirs
            THEN IF f # "" /\ manifest_matches_blender_file(w.man[candidate], f)
                 THEN candidate
                 ELSE bl_unique_from(w, name, index + 1, f)
            ELSE candidate

bl_unique_project_dir(w, base_dir, f) ==
    IF base_dir \notin w.dirs THEN base_dir
    ELSE IF f # "" /\ manifest_matches_blender_file(w.man[base_dir], f) THEN base_dir
    ELSE bl_unique_from(w, base_dir[1], 1, f)

resolve_project_dir_for_blender(w, f) ==
    (LET cached == bl_cached_project_dir(w, f)
     IN  (LET linked_dir == project_dir_from_linked_sp(w, f)
          IN  (LET base_dir == BaseDir(bl_get_project_name(w))
               IN  (LET found == find_manifest_for_blender_file(w, f)
                    IN  (LET r == IF cached # NoDir THEN cached
                                   ELSE IF f # "" /\ linked_dir # NoDir THEN linked_dir
                                   ELSE IF f # "" /\ base_dir \in w.dirs
                                                    /\ manifest_matches_blender_file(w.man[base_dir], f)
                                        THEN base_dir
                                   ELSE IF f # "" /\ found # NoDir THEN found
                                   ELSE IF f # "" THEN bl_unique_project_dir(w, base_dir, f)
                                   ELSE base_dir
                         IN  LogResolve(Ret(bl_set_cached_project_dir(w, f, r), r), f, r))))))

bl_get_project_dir(w) ==
    resolve_project_dir_for_blender(w, get_blender_file_path_or_temp(w))

bl_project_dir_for_send(w, f) ==
    (LET cached == bl_cached_project_dir(w, f)
     IN  (LET linked_dir == project_dir_from_linked_sp(w, f)
          IN  (LET found == find_manifest_for_blender_file(w, f)
               IN  (LET r == IF f # "" /\ cached # NoDir THEN cached
                              ELSE IF f # "" /\ linked_dir # NoDir THEN linked_dir
                              ELSE IF f # "" /\ found # NoDir THEN found
                              ELSE bl_unique_project_dir(w, BaseDir(bl_get_project_name(w)), f)
                    IN  LogResolve(Ret(bl_set_cached_project_dir(w, f, r), r), f, r)))))

bl_update_link_registry(w, s, f) ==
    IF s = "" \/ f = "" THEN w
    ELSE save_link_registry(
             w, [load_link_registry(w, bl_link_registry_paths(w.roots))
                    EXCEPT !.s2b[normalize_path_key(s)] = f,
                           !.b2s[normalize_path_key(f)] = s],
             bl_link_registry_paths(w.roots))

\* read_active_sp_info: None unless the record says a project is open in a directory
read_active_sp_info(info) ==
    IF info.exists /\ info.open /\ info.dir # NoDir THEN info ELSE NoInfo

\* a scan that returns the first record that is young enough
RECURSIVE first_fresh(_, _, _, _)
first_fresh(files, t, max_age, best) ==
    IF files = <<>> THEN best
    ELSE IF ~Head(files).exists THEN first_fresh(Tail(files), t, max_age, best)
    ELSE IF max_age # 0 /\ Head(files).ts # 0 /\ t - Head(files).ts > max_age
         THEN first_fresh(Tail(files), t, max_age, best)
    ELSE IF ~best.exists THEN first_fresh(Tail(files), t, max_age, Head(files))
    ELSE first_fresh(Tail(files), t, max_age, best)

\* the loop shared by find_active_sp_project_info and find_active_blender_info
\* over the records read at the scanned locations: best is the record kept so
\* far, and NoInfo (timestamp 0) stands for best = None, best_time = 0.0
RECURSIVE read_latest(_, _, _, _)
read_latest(files, t, max_age, best) ==
    IF files = <<>> THEN best
    ELSE IF ~Head(files).exists THEN read_latest(Tail(files), t, max_age, best)
    ELSE IF max_age # 0 /\ Head(files).ts # 0 /\ t - Head(files).ts > max_age
         THEN read_latest(Tail(files), t, max_age, best)
    ELSE IF Head(files).ts > best.ts
         THEN read_latest(Tail(files), t, max_age, Head(files))
    ELSE read_latest(Tail(files), t, max_age, best)

find_active_sp_project_info(w) ==
    read_latest(<<read_active_sp_info(w.hbSp)>>, w.now, ACTIVE_SP_INFO_MAX_AGE, NoInfo)

get_linked_sp_project_path(w, project_dir, active_info, f) ==
    (LET linked == IF f = "" THEN ""
                    ELSE load_link_registry(w, bl_link_registry_paths(w.roots)).b2s[normalize_path_key(f)]
     IN  (LET found == find_manifest_for_blender_file(w, f)
          IN  IF active_info.exists /\ active_info.sp_file # "" THEN active_info.sp_file
                  ELSE IF linked # "" THEN linked
                  ELSE IF found # NoDir /\ w.man[found].sp_project_file # ""
                       THEN w.man[found].sp_project_file
                  ELSE IF project_dir # NoDir THEN w.man[project_dir].sp_project_file
                  ELSE ""))

resolve_sp_project_candidate(w, s, f) ==
    (LET fallback == find_latest_saved_sp_project_for_blender(w, f)
     IN  IF s = "" THEN ""
             ELSE IF is_temp_sp_project_file(s)
                  THEN (IF fallback # "" THEN fallback ELSE s)
             ELSE IF sp_file_on_disk(s) THEN s
             ELSE fallback)

resolve_active_sp_project_info_1(w1) ==
    (LET local == read_active_sp_info(w1.hbSpDir[w1.ret])
 IN  (LET active_info == find_active_sp_project_info(w1)
      IN  (LET f == get_blender_file_path_or_temp(w1)
           IN  (LET linked_sp_project == get_linked_sp_project_path(w1, w1.ret, NoInfo, f)
                IN  (LET by_sp == IF active_info.sp_file = "" THEN NoDir
                                   ELSE find_manifest_for_sp_project_file(w1, active_info.sp_file)
                     IN  LET project_dir == w1.ret
                                 s == active_info.sp_file
                                 dir_manifest_ok ==
                                     /\ s # ""
                                     /\ w1.man[project_dir].exists
                                     /\ paths_match(w1.man[project_dir].sp_project_file, s)
                                 answer ==
                                     IF local.exists THEN local
                                     ELSE IF ~active_info.exists THEN NoInfo
                                     ELSE IF linked_sp_project # "" /\ s # "" /\ ~paths_match(s, linked_sp_project)
                                          THEN NoInfo
                                     ELSE IF paths_match(active_info.bl_file, f) THEN active_info
                                     ELSE IF s # "" /\ paths_match(load_link_registry(w1, bl_link_registry_paths(w1.roots)).s2b[normalize_path_key(s)], f)
                                          THEN active_info
                                     ELSE IF by_sp # NoDir /\ paths_match(w1.man[by_sp].blender_file, f)
                                          THEN active_info
                                     ELSE IF dir_manifest_ok THEN active_info
                                     ELSE IF ~is_temp_blender_file(f) THEN NoInfo
                                     ELSE IF active_info.dir = project_dir THEN active_info
                                     ELSE NoInfo
                             IN [w1 EXCEPT !.info = answer])))))

\* returns the record in `info` (NoInfo = None); resolving the directory may
\* fill the cache
resolve_active_sp_project_info(w) ==
    resolve_active_sp_project_info_1(bl_get_project_dir(w))

write_active_blender_info(w) ==
    (LET w1 == bl_get_project_dir(w)
     IN  [ensure_dir(w1, w1.ret)
             EXCEPT !.hbBl = [exists |-> TRUE, ts |-> w1.now, open |-> TRUE,
                              name |-> bl_get_project_name(w1), dir |-> w1.ret,
                              sp_file |-> "",
                              bl_file |-> get_blender_file_path_or_temp(w1)]])

update_manifest_blender_file(w, old, new) ==
    (LET d == find_manifest_for_blender_file(w, old)
     IN  IF old = "" \/ new = "" \/ d = NoDir THEN w
             ELSE write_manifest(w, d, [w.man[d] EXCEPT !.blender_file = new]))

sync_saved_blender_file_1(w, w4) ==
    (LET w5 == IF bl_cached_project_dir(w4, w.blLast) # NoDir
            THEN Ret(w4, bl_cached_project_dir(w4, w.blLast))
            ELSE resolve_project_dir_for_blender(w4, w.blLast)
 IN  [bl_set_cached_project_dir(w5, w.blFile, w5.ret)
         EXCEPT !.blLast = w.blFile])

sync_saved_blender_file_2(w, w1) ==
    (LET w2 == IF w1.info.exists /\ w1.info.sp_file # ""
            THEN w1 ELSE bl_get_project_dir(w1)
 IN  (LET s == IF w1.info.exists /\ w1.info.sp_file # ""
                THEN w1.info.sp_file
                ELSE get_linked_sp_project_path(w2, w2.ret, w1.info, w.blLast)
      IN  (LET w3 == bl_update_link_registry(w2, s, w.blFile)
           IN  sync_saved_blender_file_1(w, update_manifest_blender_file(w3, w.blLast, w.blFile)))))

sync_saved_blender_file(w) ==
    IF w.blLast = "?" THEN [w EXCEPT !.blLast = get_blender_file_path_or_temp(w)]
    ELSE IF w.blFile # "" /\ ~paths_match(w.blFile, w.blLast)
    THEN sync_saved_blender_file_2(w, resolve_active_sp_project_info(w))
    ELSE [w EXCEPT !.blLast = get_blender_file_path_or_temp(w)]

\* _update_active_blender_info: timer, save_post and load_post handler
update_active_blender_info(w) == write_active_blender_info(sync_saved_blender_file(w))

\* uuid.uuid4().hex of the n-th export
Token(n) == IF n = 1 THEN "t1" ELSE IF n = 2 THEN "t2" ELSE "t3"

SendToSP_1(w, force_new_project, f, signature_sp_project, w3, path_hint, w5) ==
    (LET w6 == [w5 EXCEPT !.meshes = @ \cup {w3.ret}, !.seq = @ + 1,
            !.roots = write_bridge_root_hint(
                          [@ EXCEPT !.made = @ \cup {bl_get_bridge_root(w.roots)}],
                          bl_get_bridge_root(w.roots)),
            !.highs = IF w.hpref = "exported" THEN @ \cup {w3.ret} ELSE @]
 IN  write_manifest(w6, w3.ret,
         [exists |-> TRUE, source |-> "blender",
          blender_file |-> f,
          sp_project_file |-> IF force_new_project THEN ""
                              ELSE IF signature_sp_project # "" THEN signature_sp_project
                              ELSE path_hint,
          project |-> bl_get_project_name(w6),
          auto_import |-> TRUE, ts |-> w6.seq,
          force_new |-> force_new_project,
          token |-> IF force_new_project THEN Token(w6.seq) ELSE "",
          high |-> IF w.hpref = "exported" THEN w3.ret ELSE NoDir,
          high_exported |-> IF w.hpref = "off" THEN ""
                            ELSE IF w.hpref = "exported" THEN "true"
                            ELSE "false",
          json |-> "object", link_sp |-> "", meta |-> TRUE,
          legacy |-> "none"]))

SendToSP_2(w, force_new_project, f, signature_sp_project, active_info, w3) ==
    (LET w4 == ensure_dir(w3, w3.ret)
 IN  (LET path_hint == get_linked_sp_project_path(w4, w3.ret, active_info, f)
      IN  (LET linked_sp_project == IF force_new_project THEN ""
                                     ELSE IF signature_sp_project # ""
                                          THEN resolve_sp_project_candidate(w4, signature_sp_project, f)
                                     ELSE resolve_sp_project_candidate(w4, path_hint, f)
           IN  (LET sp_project_file == IF active_info.exists /\ active_info.sp_file # "" THEN active_info.sp_file
                                        ELSE IF signature_sp_project # "" THEN signature_sp_project
                                        ELSE linked_sp_project
                IN  SendToSP_1(w, force_new_project, f, signature_sp_project, w3, path_hint, IF force_new_project THEN w4
                             ELSE bl_update_link_registry(w4, sp_project_file, f))))))

SendToSP_3(w, force_new_project, f, signature_project_dir, signature_sp_project, w2) ==
    (LET active_info == IF force_new_project THEN NoInfo
                     ELSE IF signature_project_dir # NoDir
                          THEN (IF w2.info.exists /\ w2.info.dir # signature_project_dir
                                THEN NoInfo ELSE w2.info)
                     ELSE w2.info
 IN  SendToSP_2(w, force_new_project, f, signature_sp_project, active_info, IF signature_project_dir # NoDir THEN Ret(w2, signature_project_dir)
              ELSE IF force_new_project
                   THEN Ret(w2, bl_unique_project_dir(w2, BaseDir(bl_get_project_name(w2)), ""))
              ELSE IF active_info.exists THEN Ret(w2, active_info.dir)
              ELSE bl_project_dir_for_send(w2, f)))

SendToSP_4(w, force_new_project, w1, f, signature_project_dir) ==
    (LET signature_sp_project == IF signature_project_dir = NoDir THEN ""
                              ELSE w1.man[signature_project_dir].sp_project_file
 IN  SendToSP_3(w, force_new_project, f, signature_project_dir, signature_sp_project, resolve_active_sp_project_info(w1)))

\* GOB_OT_SendToSP.execute with one low-poly mesh selected.  w.hpref tells
\* the high-poly export: "off" = the preference export_high_poly is off,
\* "exported" = the high-poly FBX was written, "none" = the preference is on
\* and no high-poly FBX was produced.  time.time() of successive exports increases; the
\* export counter stands for it in the manifest.
SendToSP(w, force_new_project) ==
    (LET w1 == write_active_blender_info(w)
     IN  (LET f == get_blender_file_path_or_temp(w1)
          IN  SendToSP_4(w, force_new_project, w1, f, IF force_new_project THEN NoDir
                       ELSE find_manifest_for_mesh_signature(w1, f))))

-----------------------------------------------------------------------------
(* Texturing side: src/gob_sp.py *)

\* sp.project.name(): the stem of the saved file, empty for an unsaved project
sp_get_project_name(w) ==
    IF w.spOpen /\ w.spPath # "" THEN sanitize_name(Stem(w.spPath)) ELSE "untitled"

get_sp_project_file_path_or_temp(w) ==
    IF w.spPath # "" THEN w.spPath ELSE temp_sp_project_file_path(w.spSession)

sp_cached_project_dir(w, s) ==
    IF s = "" THEN NoDir ELSE w.spCache[normalize_path_key(s)]

sp_set_cached_project_dir(w, s, d) ==
    IF s = "" \/ d = NoDir THEN w
    ELSE [w EXCEPT !.spCache[normalize_path_key(s)] = d]

manifest_matches_sp_project_file(m, s) ==
    /\ m.exists
    /\ s # ""
    /\ paths_match(m.sp_project_file, s)

find_manifest_for_sp_project(w, s, source) ==
    IF s = "" THEN NoDir
    ELSE Latest(w.order, {d \in w.dirs : /\ w.man[d].exists
                                          /\ source \in {"", w.man[d].source}
                                          /\ paths_match(w.man[d].sp_project_file, s)})

find_latest_manifest(w, source) ==
    Latest(w.order, {d \in w.dirs : w.man[d].exists /\ source \in {"", w.man[d].source}})

RECURSIVE sp_unique_from(_, _, _, _)
sp_unique_from(w, name, index, s) ==
    IF index > MaxSuffix + 1 THEN NoDir
    ELSE LET candidate == <<name, index>>
         IN IF candidate \in w.dirs
            THEN IF s # "" /\ manifest_matches_sp_project_file(w.man[candidate], s)
                 THEN candidate
                 ELSE sp_unique_from(w, name, index + 1, s)
            ELSE candidate

sp_unique_project_dir(w, base_dir, s) ==
    IF base_dir \notin w.dirs THEN base_dir
    ELSE IF s # "" /\ manifest_matches_sp_project_file(w.man[base_dir], s) THEN base_dir
    ELSE sp_unique_from(w, base_dir[1], 1, s)

resolve_project_dir_for_sp(w, s, base_dir) ==
    (LET cached == sp_cached_project_dir(w, s)
     IN  (LET found == find_manifest_for_sp_project(w, s, "")
          IN  (LET r == IF cached # NoDir THEN cached
                         ELSE IF s # "" /\ base_dir \in w.dirs
                                          /\ manifest_matches_sp_project_file(w.man[base_dir], s)
                              THEN base_dir
                         ELSE IF s # "" /\ found # NoDir THEN found
                         ELSE IF s # "" THEN sp_unique_project_dir(w, base_dir, s)
                         ELSE base_dir
               IN  LogResolve(Ret(sp_set_cached_project_dir(w, s, r), r), s, r))))

sp_get_project_dir(w) ==
    resolve_project_dir_for_sp(
        w,
        IF w.spOpen THEN get_sp_project_file_path_or_temp(w) ELSE "",
        BaseDir(sp_get_project_name(w)))

\* an update that writes the reverse link whatever it is told
update_both_links(w, s, f, update_blender_link) ==
    IF s = "" \/ f = "" THEN w
    ELSE save_link_registry(
             w, [load_link_registry(w, sp_link_registry_paths(w.roots))
                    EXCEPT !.s2b[normalize_path_key(s)] = f,
                           !.b2s[normalize_path_key(f)] = s],
             sp_link_registry_paths(w.roots))

sp_update_link_registry(w, s, f, update_blender_link) ==
    IF s = "" \/ f = "" THEN w
    ELSE save_link_registry(
             w, [load_link_registry(w, sp_link_registry_paths(w.roots))
                    EXCEPT !.s2b[normalize_path_key(s)] = f,
                           !.b2s[normalize_path_key(f)] =
                               IF update_blender_link THEN s ELSE @],
             sp_link_registry_paths(w.roots))

\* no update_link_registry call is between its load and its save
NoLoad == [active |-> FALSE, data |-> EmptyRegistry, s |-> "", f |-> "",
           update_blender_link |-> FALSE]

\* registry lookups of the two sides
sp_to_blender(r, s) == IF s = "" THEN "" ELSE r.s2b[normalize_path_key(s)]
blender_to_sp(r, f) == IF f = "" THEN "" ELSE r.b2s[normalize_path_key(f)]

resolve_primary_sp_project_for_blender(r, f, current) ==
    (LET candidate == blender_to_sp(r, f)
     IN  IF candidate = "" THEN ""
             ELSE IF current # "" /\ paths_match(candidate, current) THEN ""
             ELSE candidate)

read_linked_blender_file(w, project_dir) ==
    (LET s == get_sp_project_file_path_or_temp(w)
     IN  (LET linked == sp_to_blender(load_link_registry(w, sp_link_registry_paths(w.roots)), s)
          IN  (LET found == find_manifest_for_sp_project(w, s, "")
               IN  (LET m == IF project_dir = NoDir THEN NoManifest ELSE w.man[project_dir]
                    IN  IF linked # "" THEN linked
                            ELSE IF found # NoDir /\ w.man[found].blender_file # ""
                                 THEN w.man[found].blender_file
                            ELSE IF project_dir = NoDir THEN ""
                            ELSE IF m.exists /\ ~(m.sp_project_file # "" /\ ~paths_match(m.sp_project_file, s))
                                             /\ m.blender_file # ""
                                 THEN m.blender_file
                            ELSE w.pset[project_dir].linked))))

is_force_new_project_dir(w, project_dir) ==
    /\ project_dir # NoDir
    /\ w.man[project_dir].exists
    /\ w.man[project_dir].force_new

update_manifest_sp_project_file(w, old, new) ==
    (LET d == find_manifest_for_sp_project(w, old, "")
     IN  IF old = "" \/ new = "" \/ d = NoDir THEN w
             ELSE write_manifest(w, d, [w.man[d] EXCEPT !.sp_project_file = new]))

\* a cross-reference that is written to the file the manifest was read from
write_sp_project_file_in_place(w, m, project_dir, s) ==
    IF ~m.exists \/ project_dir = NoDir \/ s = "" THEN w
    ELSE write_manifest_in_place(w, project_dir, [m EXCEPT !.sp_project_file = s])

write_manifest_sp_project_file(w, m, project_dir, s) ==
    IF ~m.exists \/ project_dir = NoDir \/ s = "" THEN w
    ELSE write_manifest(w, project_dir, [m EXCEPT !.sp_project_file = s])

sync_saved_sp_project_file_1(w, w4) ==
    [sp_set_cached_project_dir(w4, w.spPath, w4.ret)
    EXCEPT !.spLast = get_sp_project_file_path_or_temp(w)]

sync_saved_sp_project_file(w) ==
    IF ~w.spOpen THEN [w EXCEPT !.spLast = "?"]
    ELSE IF w.spLast # "?" /\ w.spPath # "" /\ ~paths_match(w.spPath, w.spLast)
    THEN (LET w1 == sp_get_project_dir(w)
          IN  (LET w2 == sp_update_link_registry(w1, w.spPath,
                          read_linked_blender_file(w1, w1.ret),
                          ~is_force_new_project_dir(w1, w1.ret))
               IN  (LET w3 == update_manifest_sp_project_file(w2, w.spLast, w.spPath)
                    IN  sync_saved_sp_project_file_1(w, sp_get_project_dir(w3)))))
    ELSE [w EXCEPT !.spLast = get_sp_project_file_path_or_temp(w)]

write_active_sp_info_1(w2) ==
    (LET info == IF w2.spOpen
              THEN [exists |-> TRUE, ts |-> w2.now, open |-> TRUE,
                    name |-> sp_get_project_name(w2), dir |-> w2.ret,
                    sp_file |-> get_sp_project_file_path_or_temp(w2),
                    bl_file |-> read_linked_blender_file(w2, w2.ret)]
              ELSE [NoInfo EXCEPT !.exists = TRUE, !.ts = w2.now]
 IN  IF w2.ret = NoDir THEN [w2 EXCEPT !.hbSp = info]
         ELSE [ensure_dir(w2, w2.ret) EXCEPT !.hbSp = info,
                                             !.hbSpDir[w2.ret] = info])

write_active_sp_info(w) ==
    (LET w1 == sync_saved_sp_project_file(w)
     IN  write_active_sp_info_1(IF w1.spOpen THEN sp_get_project_dir(w1) ELSE Ret(w1, NoDir)))

find_active_blender_info(w) ==
    read_latest(<<w.hbBl>>, w.now, ACTIVE_BLENDER_INFO_MAX_AGE, NoInfo)

manifest_timestamp(m) == m.ts

\* a copy that keeps the request
KeptCopy(m) == m

ClearedCopy(m) == [m EXCEPT !.auto_import = FALSE]

clear_auto_import_flag(w, d, m) ==
    IF d = NoDir \/ ~m.exists \/ ~m.auto_import THEN w
    ELSE write_manifest_in_place(w, d, ClearedCopy(m))

\* an acceptance test that never looks at the open project
accept_without_open_check(w, m) == TRUE

\* a target test that never recognises the open project
targets_no_project(w, m, d) == [w EXCEPT !.flag = ~w.spOpen]

\* a target test that takes every manifest for the open project
targets_every_project(w, m, d) == [w EXCEPT !.flag = TRUE]

\* the answer is left in `flag`; resolving the directory may fill the cache
manifest_targets_current_project(w, m, d) ==
    IF ~w.spOpen THEN [w EXCEPT !.flag = TRUE]
    ELSE IF paths_match(get_sp_project_file_path_or_temp(w), m.sp_project_file)
         THEN [w EXCEPT !.flag = TRUE]
    ELSE (LET w1 == sp_get_project_dir(w)
          IN  [w1 EXCEPT !.flag = (w1.ret = d)])

force_new_token_matches(w, m) ==
    /\ m.token # ""
    /\ w.spToken # ""
    /\ m.token = w.spToken

should_accept_force_new_manifest(w, m) ==
    IF m.token # ""
    THEN (IF w.spToken # "" /\ m.token = w.spToken THEN TRUE ELSE ~w.spOpen)
    ELSE ~w.spOpen

Dialog(w) == [w EXCEPT !.dlg = TRUE]

\* apply_high_poly_mesh; ok is whether the host has texture sets with a
\* HipolyMesh parameter and sets it without raising
apply_high_poly_mesh(w, high_path, ok) ==
    IF high_path = NoDir \/ high_path \notin w.highs \/ ~w.spOpen \/ ~ok
    THEN [w EXCEPT !.flag = FALSE]
    ELSE [w EXCEPT !.flag = TRUE, !.hp.mesh = high_path,
                   !.hp.attached = @ \cup {high_path}]

clear_high_poly_mesh(w, ok) ==
    IF ~w.spOpen \/ ~ok THEN [w EXCEPT !.flag = FALSE]
    ELSE [w EXCEPT !.flag = TRUE, !.hp.mesh = NoDir]

\* a stop that leaves the timer armed
stop_without_reset(w) == w

stop_high_poly_retry(w) ==
    [w EXCEPT !.hp.running = FALSE, !.hp.path = NoDir, !.hp.remaining = 0]

\* _queue_high_poly_retry with the default number of retries
queue_high_poly_retry(w, high_path) ==
    IF high_path = NoDir \/ HIGH_POLY_RETRY_COUNT <= 0 THEN w
    ELSE [w EXCEPT !.hp.path = high_path,
                   !.hp.remaining = IF @ > HIGH_POLY_RETRY_COUNT THEN @
                                    ELSE HIGH_POLY_RETRY_COUNT,
                   !.hp.running = TRUE, !.hp.tries = 0]

\* _on_retry, the timeout handler of the retry timer
on_retry(w, ok) ==
    IF w.hp.path = NoDir \/ w.hp.remaining <= 0 THEN stop_high_poly_retry(w)
    ELSE (LET a == apply_high_poly_mesh([w EXCEPT !.hp.tries = @ + 1], w.hp.path, ok)
          IN  IF a.flag THEN stop_high_poly_retry(a)
                  ELSE IF a.hp.remaining - 1 <= 0
                       THEN stop_high_poly_retry([a EXCEPT !.hp.remaining = @ - 1])
                  ELSE [a EXCEPT !.hp.remaining = @ - 1])

\* _on_enter of apply_high_poly_when_ready (a path) and of
\* clear_high_poly_when_ready (NoDir)
on_enter(w, high_path, ok) ==
    IF high_path = NoDir THEN clear_high_poly_mesh(w, ok)
    ELSE (LET a == apply_high_poly_mesh(w, high_path, ok)
          IN  IF a.flag THEN a ELSE queue_high_poly_retry(a, high_path))

apply_high_poly_when_ready(w, high_path, o) ==
    IF high_path = NoDir THEN w
    ELSE (LET w1 == queue_high_poly_retry(w, high_path)
          IN  IF w1.spOpen /\ o.ready
                  THEN on_enter(w1, high_path, o.attach)
                  ELSE [w1 EXCEPT !.hp.enter = Append(@, high_path)])

clear_high_poly_when_ready(w, o) ==
    (LET w1 == stop_high_poly_retry(w)
     IN  IF w1.spOpen /\ o.ready
             THEN clear_high_poly_mesh(w1, o.attach)
             ELSE [w1 EXCEPT !.hp.enter = Append(@, NoDir)])

\* import_from_blender, lines 4320-4342: the high-poly mesh of the manifest,
\* looked for at the manifest's path, in the project directory and in the
\* directory named after the project; the reference is cleared when the
\* manifest names a file that is nowhere, or says none was exported
resolve_high_path(w, d, m, o) ==
    (LET high_path == IF m.high = NoDir THEN NoDir
                       ELSE IF m.high \in w.highs THEN m.high
                       ELSE IF d \in w.highs THEN d
                       ELSE IF BaseDir(sanitize_name(m.project)) \in w.highs
                            THEN BaseDir(sanitize_name(m.project))
                       ELSE NoDir
     IN  (LET w1 == IF m.high # NoDir /\ high_path = NoDir
                     THEN clear_high_poly_when_ready(w, o) ELSE w
          IN  (LET w2 == IF high_path = NoDir /\ m.high_exported = "false"
                          THEN clear_high_poly_when_ready(w1, o) ELSE w1
               IN  [w2 EXCEPT !.ret = high_path])))

record_import_1(d, m, clear, s, w2) ==
    (LET w3 == IF m.force_new
            THEN [ensure_dir(w2, d) EXCEPT !.pset[d].force_new = TRUE]
            ELSE w2
 IN  (LET w4 == write_manifest_sp_project_file(
                 w3, IF clear THEN ClearedCopy(m) ELSE m, d, s)
      IN  write_active_sp_info(w4)))

\* the bookkeeping shared by _finish_reload(True) and the tail of the create path
record_import(w, d, m, clear, high_path, o) ==
    (LET w0 == apply_high_poly_when_ready([w EXCEPT !.hp.want = high_path], high_path, o)
     IN  (LET w1 == IF clear THEN clear_auto_import_flag(w0, d, m) ELSE w0
          IN  (LET s == get_sp_project_file_path_or_temp(w1)
               IN  record_import_1(d, m, clear, s, IF m.blender_file = "" THEN w1
                            ELSE (LET x == sp_get_project_dir(w1)
                                  IN  sp_update_link_registry(
                                          [ensure_dir(x, x.ret) EXCEPT !.pset[x.ret].linked = m.blender_file],
                                          s, m.blender_file, ~m.force_new))))))

\* reload branch of import_from_blender, lines 4371-4451
start_reload(w, d, m, clear, high_path, o) ==
    LET pend(fb, c) == [active |-> TRUE, dir |-> d, m |-> m, clear |-> clear,
                        attempted_fallback |-> fb, high |-> high_path, calls |-> c]
    IN IF ~o.ready THEN w
       ELSE IF o.reload = "accepted"
            THEN [w EXCEPT !.inProgress = TRUE,
                           !.pending = pend(FALSE, <<"preserve">>),
                           !.act = "reload", !.calls = <<"preserve">>]
       ELSE IF o.reload = "busy"
            THEN [w EXCEPT !.inProgress = FALSE, !.busyUntil = w.now + BUSY_BACKOFF,
                           !.act = "busy", !.calls = <<"preserve", "failed">>]
       ELSE IF o.reload = "stroke" /\ o.fallback = "accepted"
            THEN [w EXCEPT !.inProgress = TRUE,
                           !.pending = pend(TRUE, <<"preserve", "failed", "plain">>),
                           !.act = "reload",
                           !.calls = <<"preserve", "failed", "plain">>]
       ELSE IF o.reload = "stroke"
            THEN Dialog([w EXCEPT !.inProgress = FALSE, !.act = "raised",
                                  !.calls = <<"preserve", "failed", "plain", "failed">>])
       ELSE Dialog([w EXCEPT !.inProgress = FALSE, !.act = "raised",
                             !.calls = <<"preserve", "failed">>])

\* create branch of import_from_blender, lines 4453-4515
start_create(w, d, m, clear, high_path, o) ==
    IF m.force_new /\ ~should_accept_force_new_manifest(w, m)
    THEN (IF clear THEN [w EXCEPT !.act = "reject"] ELSE Dialog([w EXCEPT !.act = "reject"]))
    ELSE (LET w1 == IF m.force_new /\ w.spOpen
                     THEN [w EXCEPT !.spOpen = FALSE, !.spPath = "", !.closed = TRUE]
                     ELSE w
          IN  IF ~o.create
                  THEN Dialog([w1 EXCEPT !.inProgress = FALSE, !.act = "create_failed"])
                  ELSE (LET w2 == [w1 EXCEPT !.spOpen = TRUE, !.spPath = "",
                                   !.act = "create",
                                   !.spToken = IF m.force_new
                                                  /\ force_new_token_matches(w1, m)
                                               THEN "" ELSE @]
                        IN  [record_import(w2, d, m, clear, high_path, o) EXCEPT !.inProgress = FALSE]))

import_from_blender_1(clear_auto_import, o, d, m, h, w3) ==
    IF ~w3.flag
    THEN (IF clear_auto_import THEN w3 ELSE Dialog(w3))
    ELSE start_reload(w3, d, m, clear_auto_import, h.ret, o)

import_from_blender_2(clear_auto_import, o, w1, d, m) ==
    (LET w2 == [w1 EXCEPT !.mdir = d, !.seen = m]
 IN  IF d = NoDir \/ ~m.exists THEN Dialog(w2)
         ELSE (LET h == resolve_high_path(w2, d, m, o)
               IN  IF ~(d \in w1.meshes \/ BaseDir(sanitize_name(m.project)) \in w1.meshes)
                       THEN Dialog(h)
                       ELSE IF h.spOpen /\ ~m.force_new
                            THEN import_from_blender_1(clear_auto_import, o, d, m, h, manifest_targets_current_project(h, m, d))
                       ELSE start_create(h, d, m, clear_auto_import, h.ret, o)))

import_from_blender_3(manifest_dir, clear_auto_import, o, candidate, w1) ==
    (LET d == IF manifest_dir # NoDir THEN manifest_dir
           ELSE IF candidate # NoDir THEN candidate
           ELSE IF w1.man[w1.ret].exists /\ w1.man[w1.ret].source = "blender"
                THEN w1.ret
           ELSE find_latest_manifest(w1, "blender")
 IN  import_from_blender_2(clear_auto_import, o, w1, d, IF d = NoDir THEN NoManifest ELSE w1.man[d]))

import_from_blender(w, manifest_dir, clear_auto_import, o) ==
    (LET s == IF w.spOpen THEN get_sp_project_file_path_or_temp(w) ELSE ""
     IN  (LET candidate == find_manifest_for_sp_project(w, s, "blender")
          IN  import_from_blender_3(manifest_dir, clear_auto_import, o, candidate, IF manifest_dir # NoDir \/ candidate # NoDir THEN w
                       ELSE sp_get_project_dir(w))))

\* a test that leaves out the in-progress flag
blocked_by_backoff_only(w, t) == w.busyUntil # 0 /\ t < w.busyUntil

\* a test that leaves out the back-off
blocked_by_progress_only(w, t) == w.inProgress

\* lines 4920-4923: the tick returns while an operation is in progress or the
\* back-off has not elapsed
poll_blocked(w, t) ==
    \/ w.inProgress
    \/ w.busyUntil # 0 /\ t < w.busyUntil

auto_import_poll_1(o, d, m, w4) ==
    IF ~w4.flag THEN w4
    ELSE IF d = w4.lastPath /\ manifest_timestamp(m) <= w4.lastTime THEN w4
    ELSE import_from_blender([w4 EXCEPT !.called = TRUE], d, TRUE, o)

auto_import_poll_2(w, o, w1, active_blender, by_heartbeat, may_scan, w2, d, m, w3) ==
    IF poll_blocked(w1, w.now) THEN w1
    ELSE IF /\ active_blender.exists
            /\ active_blender.dir # NoDir
            /\ w1.man[active_blender.dir].json = "truthy"
         THEN [w1 EXCEPT !.exc = TRUE]
    ELSE IF /\ by_heartbeat = NoDir
            /\ may_scan
            /\ \E x \in w2.dirs : w2.man[x].json = "truthy"
         THEN [w2 EXCEPT !.exc = TRUE]
    ELSE IF d = NoDir THEN w2
    ELSE IF ~m.exists \/ ~m.auto_import THEN w3
    ELSE IF m.force_new /\ ~should_accept_force_new_manifest(w3, m)
         THEN [w3 EXCEPT !.act = "reject"]
    ELSE auto_import_poll_1(o, d, m, IF ~m.force_new /\ w3.spOpen
                       THEN manifest_targets_current_project(w3, m, d)
                       ELSE [w3 EXCEPT !.flag = TRUE])

auto_import_poll_3(w, o, w1, active_blender, by_heartbeat, may_scan, w2, d) ==
    (LET m == IF d = NoDir THEN NoManifest ELSE w2.man[d]
 IN  auto_import_poll_2(w, o, w1, active_blender, by_heartbeat, may_scan, w2, d, m, [w2 EXCEPT !.mdir = d, !.seen = m]))

auto_import_poll_4(w, o, w1) ==
    (LET active_blender == find_active_blender_info(w1)
 IN  (LET by_heartbeat == IF /\ active_blender.exists
                              /\ active_blender.dir # NoDir
                              /\ w1.man[active_blender.dir].exists
                              /\ w1.man[active_blender.dir].source = "blender"
                              /\ w1.man[active_blender.dir].auto_import
                           THEN active_blender.dir
                           ELSE NoDir
      IN  (LET may_scan == w.now - w1.lastScan >= AUTO_IMPORT_SCAN_COOLDOWN
           IN  (LET w2 == IF by_heartbeat = NoDir /\ may_scan
                           THEN [w1 EXCEPT !.lastScan = w.now] ELSE w1
                IN  auto_import_poll_3(w, o, w1, active_blender, by_heartbeat, may_scan, w2, IF by_heartbeat # NoDir THEN by_heartbeat
                             ELSE IF may_scan THEN find_latest_manifest(w2, "blender")
                             ELSE NoDir)))))

\* start_plugin._auto_import_poll up to the return of import_from_blender.
\* read_manifest hands back whatever JSON value the file holds: a manifest
\* record with exists = FALSE stands for a file that is missing, malformed
\* (json = "torn") or holds a false value such as null or [] (json = "falsy"),
\* all of which the tests "not manifest" take for no manifest; json = "truthy"
\* is a true value that is not an object, such as [1], on which manifest.get
\* raises AttributeError, here (line 4933) and in find_latest_manifest (line
\* 1323); exc tells that the exception left the handler.
auto_import_poll(w, o) ==
    auto_import_poll_4(w, o, IF w.now - w.lastActiveWrite >= AUTO_IMPORT_ACTIVE_WRITE_INTERVAL
             THEN [write_active_sp_info(w) EXCEPT !.lastActiveWrite = w.now]
             ELSE w)

\* lines 4958-4960, run when import_from_blender has returned
poll_mark(w, ts, d) ==
    IF ~w.inProgress THEN [w EXCEPT !.lastTime = ts, !.lastPath = d] ELSE w

\* _on_reload(status) of the reload in flight
\* a callback that takes every status for success
on_reload_as_success(w, status, o) ==
    Dialog(record_import([w EXCEPT !.pending = NoPending, !.inProgress = FALSE,
                                   !.act = "reloaded"],
                         w.pending.dir, w.pending.m, w.pending.clear,
                         w.pending.high, o))

\* a callback that calls the fallback after every failure
on_reload_retry_always(w, status, o) ==
    IF status = "success"
    THEN Dialog(record_import([w EXCEPT !.pending = NoPending, !.inProgress = FALSE,
                                        !.act = "reloaded",
                                        !.calls = w.pending.calls \o <<"ok">>],
                              w.pending.dir, w.pending.m, w.pending.clear,
                              w.pending.high, o))
    ELSE IF o.fallback = "accepted"
    THEN [w EXCEPT !.pending.attempted_fallback = TRUE,
                   !.pending.calls = w.pending.calls \o <<"failed", "plain">>,
                   !.act = "fallback",
                   !.calls = w.pending.calls \o <<"failed", "plain">>]
    ELSE Dialog([w EXCEPT !.pending = NoPending, !.inProgress = FALSE,
                          !.act = "reload_failed",
                          !.calls = w.pending.calls \o <<"failed">>])

\* `calls` is the record of the reload_mesh calls of the action so far: the
\* settings of each call ("preserve" for preserve_strokes=True, "plain" for
\* the fallback settings) and how it ended ("ok", "failed")
on_reload(w, status, o) ==
    (LET done == [w EXCEPT !.pending = NoPending, !.inProgress = FALSE]
     IN  IF status = "success"
             THEN Dialog(record_import([done EXCEPT !.act = "reloaded",
                                                    !.calls = w.pending.calls \o <<"ok">>],
                                       w.pending.dir, w.pending.m, w.pending.clear,
                                       w.pending.high, o))
             ELSE IF ~w.pending.attempted_fallback /\ o.fallback = "accepted"
                  THEN [w EXCEPT !.pending.attempted_fallback = TRUE,
                                 !.pending.calls = w.pending.calls \o <<"failed", "plain">>,
                                 !.act = "fallback",
                                 !.calls = w.pending.calls \o <<"failed", "plain">>]
             ELSE IF ~w.pending.attempted_fallback
                  THEN Dialog([done EXCEPT !.act = "reload_failed",
                                           !.calls = w.pending.calls
                                                       \o <<"failed", "plain", "failed">>])
             ELSE Dialog([done EXCEPT !.act = "reload_failed",
                                      !.calls = w.pending.calls \o <<"failed">>]))

-----------------------------------------------------------------------------
(* The host application.  sp.project.reload_mesh either accepts the call   *)
(* and reports through the callback later, or raises; sp.project.create    *)
(* either creates the project or raises.  A reload is not accepted while   *)
(* another one is in flight.                                                *)
(* sp.project.is_in_edition_state() is whatever the host answers when asked, *)
(* and attach is whether the host takes a high-poly mesh when given one.    *)

HostOk ==
    [ready |-> TRUE, create |-> TRUE, reload |-> "accepted", fallback |-> "accepted",
     attach |-> TRUE]
HostBusy ==
    [ready |-> TRUE, create |-> FALSE, reload |-> "busy", fallback |-> "error",
     attach |-> TRUE]
HostRetry ==
    [ready |-> TRUE, create |-> FALSE, reload |-> "stroke", fallback |-> "accepted",
     attach |-> TRUE]
HostError ==
    [ready |-> TRUE, create |-> FALSE, reload |-> "error", fallback |-> "error",
     attach |-> TRUE]
HostNotReady ==
    [ready |-> FALSE, create |-> TRUE, reload |-> "error", fallback |-> "error",
     attach |-> TRUE]

HostOutcomes(w) ==
    IF w.pending.active THEN {HostBusy, HostError, HostNotReady}
    ELSE {HostOk, HostBusy, HostRetry, HostError, HostNotReady}

\* the document the open project is linked to, as the heartbeat advertises it
Paired(w) ==
    IF w.spOpen
    THEN read_linked_blender_file(
             w, sp_cached_project_dir(w, get_sp_project_file_path_or_temp(w)))
    ELSE ""

Count(c, ts, started, failed, succeeded) ==
    IF ts = 0 THEN c
    ELSE [c EXCEPT !.n[ts] = [started |-> @.started + started,
                              failed |-> @.failed + failed,
                              succeeded |-> @.succeeded + succeeded]]

Push(w, frame) == IF w.dlg THEN [w EXCEPT !.stack = Append(@, frame)] ELSE w

poll_tick_1(w1) ==
    (LET ts == manifest_timestamp(w1.seen)
 IN  (LET w2 == IF ~w1.called THEN w1
                 ELSE IF w1.dlg
                      THEN Push(w1, [kind |-> "poll", ts |-> ts, dir |-> w1.mdir])
                 ELSE poll_mark(w1, ts, w1.mdir)
      IN  [w2 EXCEPT !.cnt = IF ~w1.called THEN w1.cnt
              ELSE IF w1.act = "reload" THEN Count(w1.cnt, ts, 1, 0, 0)
              ELSE IF w1.act = "create" THEN Count(w1.cnt, ts, 1, 0, 1)
              ELSE IF w1.act \in {"busy", "raised", "create_failed"}
                   THEN Count(w1.cnt, ts, 0, 1, 0)
              ELSE w1.cnt]))

\* one tick of the poll timer of the instance whose globals w holds, with the
\* host answering o
poll_tick(w, o) ==
    poll_tick_1(auto_import_poll(w, o))

\* one tick of the poll timer, with the host answering o
SpPollWith(o) == Commit(poll_tick(World, o))

\* the globals of the two instances exchanged: what the second instance does
\* is what the code does on its globals and the shared files
Swap(w) ==
    [w EXCEPT !.spOpen = w.peer.spOpen, !.spPath = w.peer.spPath,
              !.spToken = w.peer.spToken, !.spCache = w.peer.spCache,
              !.spLast = w.peer.spLast, !.spSession = w.peer.spSession,
              !.inProgress = w.peer.inProgress, !.busyUntil = w.peer.busyUntil,
              !.lastTime = w.peer.lastTime, !.lastPath = w.peer.lastPath,
              !.lastScan = w.peer.lastScan,
              !.lastActiveWrite = w.peer.lastActiveWrite,
              !.pending = w.peer.pending, !.stack = w.peer.stack,
              !.hp = w.peer.hp, !.cnt = w.peer.cnt,
              !.peer = [spOpen |-> w.spOpen, spPath |-> w.spPath,
                        spToken |-> w.spToken, spCache |-> w.spCache,
                        spLast |-> w.spLast, spSession |-> w.spSession,
                        inProgress |-> w.inProgress, busyUntil |-> w.busyUntil,
                        lastTime |-> w.lastTime, lastPath |-> w.lastPath,
                        lastScan |-> w.lastScan,
                        lastActiveWrite |-> w.lastActiveWrite,
                        pending |-> w.pending, stack |-> w.stack,
                        hp |-> w.hp, cnt |-> w.cnt]]

\* one tick of the poll timer of the second instance
SpPeerPollWith(o) ==
    /\ peer.stack = <<>>
    /\ Commit(Swap(poll_tick(Swap(World), o)))

SpPoll == \E o \in HostOutcomes(World) : SpPollWith(o)

\* menu action "GoB Bridge: Import from Blender"; a modal dialog blocks the menu
SpImportWith(o) ==
    /\ stack = <<>>
    /\ Commit(Push(import_from_blender([World EXCEPT !.called = TRUE], NoDir, FALSE, o),
                   [kind |-> "import", ts |-> 0, dir |-> NoDir]))

SpImport == \E o \in HostOutcomes(World) : SpImportWith(o)

SpReloadDoneWith_1(w1) ==
    (LET ts == manifest_timestamp(pending.m)
 IN  (LET w2 == Push(w1, [kind |-> "reload", ts |-> 0, dir |-> NoDir])
      IN  [w2 EXCEPT !.cnt =
              IF ~pending.clear THEN w1.cnt
              ELSE IF w1.act = "reloaded" THEN Count(w1.cnt, ts, 0, 0, 1)
              ELSE IF w1.act = "reload_failed" THEN Count(w1.cnt, ts, 0, 1, 0)
              ELSE w1.cnt]))

\* the host reports the end of the reload in flight; o is what the host
\* answers to the calls the callback makes
SpReloadDoneWith(status, o) ==
    /\ pending.active
    /\ Commit(SpReloadDoneWith_1(on_reload(World, status, o)))

SpReloadDone ==
    \E status \in {"success", "failure"}, o \in {HostOk, HostError} :
        SpReloadDoneWith(status, o)

\* the user dismisses the innermost dialog and the suspended handler goes on
SpDialogClose ==
    /\ stack # <<>>
    /\ Commit((LET w1 == [World EXCEPT !.stack = SubSeq(@, 1, Len(@) - 1)]
               IN  IF stack[Len(stack)].kind = "poll"
                       THEN poll_mark(w1, stack[Len(stack)].ts, stack[Len(stack)].dir)
                       ELSE w1))

\* the user closes the project
SpUserClose ==
    /\ spOpen
    /\ stack = <<>>
    /\ ~pending.active
    /\ Commit([World EXCEPT !.spOpen = FALSE, !.spPath = ""])

\* the user saves the project under a new path
SpUserSaveAs ==
    /\ spOpen
    /\ stack = <<>>
    /\ \E p \in SpDocs \ {spPath} :
         Commit([World EXCEPT !.spPath = p])

\* the user opens a saved project
SpUserOpen ==
    /\ stack = <<>>
    /\ ~pending.active
    /\ \E p \in SpDocs \ {spPath} :
         Commit([World EXCEPT !.spOpen = TRUE, !.spPath = p])

SpKeyLog(l) == [k \in DOMAIN l |-> IF k \in SpKeys THEN {} ELSE l[k]]
BlKeyLog(l) == [k \in DOMAIN l |-> IF k \in BlKeys THEN {} ELSE l[k]]

EmptyCount == [n |-> [t \in 1..(MaxSends + MaxReturns + MaxOverlaps) |-> NoCount]]

\* the second instance after start_plugin, launched without a token and with
\* no document open
NoPeer ==
    [spOpen |-> FALSE, spPath |-> "", spToken |-> "",
     spCache |-> [k \in SpKeys |-> NoDir], spLast |-> "?", spSession |-> 2,
     inProgress |-> FALSE, busyUntil |-> 0, lastTime |-> 0, lastPath |-> NoDir,
     lastScan |-> 0, lastActiveWrite |-> 0, pending |-> NoPending,
     stack |-> <<>>, hp |-> NoHighPoly, cnt |-> EmptyCount]

\* close_plugin, process exit, and start_plugin of the next process, which is
\* launched with or without a force-new token
SpRestart ==
    /\ spSession < 2
    /\ stack = <<>>
    /\ \E tok \in {""} \cup {Token(i) : i \in 1..seq} :
         Commit((LET w1 == write_active_sp_info(
                            [World EXCEPT !.lastTime = 0, !.lastPath = NoDir,
                                          !.inProgress = FALSE, !.busyUntil = 0,
                                          !.spToken = ""])
                 IN  write_active_sp_info(
                         [w1 EXCEPT !.spOpen = FALSE, !.spPath = "",
                                    !.spCache = [k \in SpKeys |-> NoDir], !.spLast = "?",
                                    !.spSession = @ + 1, !.pending = NoPending,
                                    !.hp = NoHighPoly,
                                    !.lastScan = 0, !.lastActiveWrite = 0,
                                    !.spToken = tok, !.resLog = SpKeyLog(@),
                                    !.cnt = EmptyCount])))

\* project_dir_for_send of the texturing side
sp_project_dir_for_send(w, s) ==
    (LET cached == sp_cached_project_dir(w, s)
     IN  (LET found == find_manifest_for_sp_project(w, s, "")
          IN  (LET r == IF s # "" /\ cached # NoDir THEN cached
                         ELSE IF s # "" /\ found # NoDir THEN found
                         ELSE sp_unique_project_dir(w, BaseDir(sp_get_project_name(w)), s)
               IN  LogResolve(Ret(sp_set_cached_project_dir(w, s, r), r), s, r))))

send_to_blender_1(exported_any, sp_project_file, project_dir, linked_blender_file, force_new_project, primary_sp_project_file, w4) ==
    IF ~exported_any THEN w4
    ELSE write_manifest([w4 EXCEPT !.seq = @ + 1], project_dir,
             [NoManifest EXCEPT !.source = "substance_painter",
                                !.project = sp_get_project_name(w4),
                                !.ts = w4.seq + 1,
                                !.blender_file = linked_blender_file,
                                !.sp_project_file = sp_project_file,
                                !.link_sp = primary_sp_project_file,
                                !.force_new = force_new_project])

send_to_blender_2(exported_any, sp_project_file, project_dir, w2, linked_blender_file, force_new_project, primary_sp_project_file) ==
    (LET w3 == sp_update_link_registry(w2, sp_project_file, linked_blender_file,
            primary_sp_project_file = "")
 IN  send_to_blender_1(exported_any, sp_project_file, project_dir, linked_blender_file, force_new_project, primary_sp_project_file, IF primary_sp_project_file # "" /\ linked_blender_file # ""
              THEN sp_update_link_registry(w3, primary_sp_project_file,
                                           linked_blender_file, TRUE)
              ELSE w3))

\* send_to_blender; exported_any tells whether the host exported something.
\* The registry is updated before the export, the manifest written after it.
send_to_blender(w, exported_any) ==
    IF ~w.spOpen THEN w
    ELSE
    (LET sp_project_file == get_sp_project_file_path_or_temp(w)
     IN  (LET w1 == sp_project_dir_for_send(w, sp_project_file)
          IN  (LET project_dir == w1.ret
               IN  (LET w2 == [ensure_dir(w1, project_dir)
                               EXCEPT !.roots = write_bridge_root_hint(
                                                    [@ EXCEPT !.made = @ \cup {sp_get_bridge_root(w.roots)}],
                                                    sp_get_bridge_root(w.roots))]
                    IN  (LET existing_manifest == w2.man[project_dir]
                         IN  (LET linked_blender_file == read_linked_blender_file(w2, project_dir)
                              IN  (LET force_new_project == (existing_manifest.exists /\ existing_manifest.force_new)
                                                             \/ w2.pset[project_dir].force_new
                                   IN  send_to_blender_2(exported_any, sp_project_file, project_dir, w2, linked_blender_file, force_new_project, IF force_new_project /\ linked_blender_file # ""
                                                THEN resolve_primary_sp_project_for_blender(
                                                         load_link_registry(w2, sp_link_registry_paths(w2.roots)),
                                                         linked_blender_file, sp_project_file)
                                                ELSE ""))))))))

\* a test that takes any manifest that could be read
any_manifest(m) == m.exists

\* the test every lookup of GOB_OT_ImportFromSP.execute ends with
is_sp_manifest(m) == m.exists /\ m.source = "substance_painter"

ImportFromSP_1(f, w1, manifest_dir, manifest) ==
    (LET blender_file == IF manifest.blender_file # "" THEN manifest.blender_file ELSE f
 IN  IF ~is_sp_manifest(manifest) THEN [w1 EXCEPT !.act = "cancelled"]
         ELSE [(IF manifest.link_sp # ""
                THEN bl_update_link_registry(w1, manifest.link_sp, blender_file)
                ELSE bl_update_link_registry(w1, manifest.sp_project_file, blender_file))
                  EXCEPT !.act = "imported", !.seen = manifest,
                         !.mdir = manifest_dir])

ImportFromSP_2(project_dir, f, w1, second) ==
    (LET manifest_dir == IF second # NoDir /\ is_sp_manifest(w1.man[second]) THEN second
                      ELSE IF w1.blFile = "" /\ w1.man[project_dir].exists THEN project_dir
                      ELSE second
 IN  ImportFromSP_1(f, w1, manifest_dir, IF manifest_dir = NoDir THEN NoManifest ELSE w1.man[manifest_dir]))

ImportFromSP_3(project_dir, f, w1, by_sp) ==
    (LET first == IF by_sp # NoDir /\ f # "" /\ w1.man[by_sp].blender_file # ""
                                /\ ~paths_match(w1.man[by_sp].blender_file, f)
               THEN NoDir ELSE by_sp
 IN  (LET by_blender == IF f = "" THEN NoDir
                         ELSE Latest(w1.order,
                                     {d \in w1.dirs : /\ w1.man[d].exists
                                                      /\ w1.man[d].source = "substance_painter"
                                                      /\ paths_match(w1.man[d].blender_file, f)})
      IN  ImportFromSP_2(project_dir, f, w1, IF first # NoDir /\ is_sp_manifest(w1.man[first]) THEN first
                   ELSE IF by_blender # NoDir THEN by_blender
                   ELSE first)))

ImportFromSP_4(project_dir, f, w1) ==
    (LET active_info == IF ~w1.info.exists /\ (f = "" \/ is_temp_blender_file(f))
                     THEN find_active_sp_project_info(w1) ELSE w1.info
 IN  ImportFromSP_3(project_dir, f, w1, IF active_info.sp_file = "" THEN NoDir
              ELSE Latest(w1.order,
                          {d \in w1.dirs : /\ w1.man[d].exists
                                           /\ w1.man[d].source = "substance_painter"
                                           /\ paths_match(w1.man[d].sp_project_file,
                                                          active_info.sp_file)})))

\* GOB_OT_ImportFromSP.execute up to the import of the files: the manifest that
\* is consumed is left in `seen`, its directory in `mdir`
ImportFromSP(w) ==
    (LET w0 == bl_get_project_dir(w)
     IN  (LET project_dir == w0.ret
          IN  (LET f == get_blender_file_path_or_temp(w0)
               IN  ImportFromSP_4(project_dir, f, resolve_active_sp_project_info(w0)))))

\* the export dialog of send_to_blender is accepted and something is exported
SpSend ==
    /\ spOpen
    /\ stack = <<>>
    /\ seq < MaxSends + MaxReturns
    /\ Commit(send_to_blender(World, TRUE))

\* the export dialog is accepted but the host exports nothing
SpSendNothing ==
    /\ spOpen
    /\ stack = <<>>
    /\ Commit(send_to_blender(World, FALSE))

\* GOB_OT_ImportFromSP
BlImport ==
    Commit(ImportFromSP(World))

\* an export of an earlier release left its manifest, with the mesh, at the
\* legacy location of a directory that has none in the metadata folder
LegacyLeft ==
    /\ seq < MaxSends
    /\ \E d \in {BaseDir("doc")} :
         /\ ~man[d].exists
         /\ Commit([World EXCEPT !.dirs = @ \cup {d},
                                 !.meshes = @ \cup {d},
                                 !.seq = @ + 1,
                                 !.order = Touch(@, d),
                                 !.man[d] = [NoManifest EXCEPT
                                                !.exists = TRUE,
                                                !.source = "blender",
                                                !.blender_file = "/doc.ext",
                                                !.project = "doc",
                                                !.auto_import = TRUE,
                                                !.ts = seq + 1,
                                                !.legacy = "left"]])

\* GOB_OT_SendToSP with the preference force_new_sp_project_on_send off
BlSend ==
    /\ seq < MaxSends
    /\ Commit(SendToSP(World, FALSE))

\* GOB_OT_SendToSP with the preference force_new_sp_project_on_send on
BlSendForceNew ==
    /\ seq < MaxSends
    /\ Commit(SendToSP(World, TRUE))

\* the user opens another file, saves under a new path or starts a new file;
\* load_post and save_post run _update_active_blender_info
BlOpenTo(f) ==
    /\ f # blFile
    /\ Commit(update_active_blender_info([World EXCEPT !.blFile = f]))

\* _active_blender_heartbeat
BlHeartbeat ==
    Commit(update_active_blender_info(World))

\* the mesh editor exits and is started again on some file
BlRestart ==
    /\ blSession < 2
    /\ \E f \in {"/doc.ext", "/other.ext"} :
         Commit([World EXCEPT !.blFile = f, !.blCache = [k \in BlKeys |-> NoDir],
                              !.blLast = "?", !.blSession = @ + 1,
                              !.resLog = BlKeyLog(@)])

\* the poll interval, the scan cooldown and the busy back-off all elapse
Tick ==
    /\ now + TickStep <= StartTime + MaxTime
    /\ Commit([World EXCEPT !.now = @ + TickStep])

-----------------------------------------------------------------------------
(* The bridge: both processes, the user and the clock *)

Init ==
    /\ now = StartTime
    /\ seq = 0
    /\ dirs = {}
    /\ man = [d \in Dir |-> NoManifest]
    /\ order = <<>>
    /\ meshes = {}
    /\ highs = {}
    /\ pset = [d \in Dir |-> NoSettings]
    /\ reg = EmptyRegistry
    /\ hbBl = NoInfo
    /\ hbSpDir = [d \in Dir |-> NoInfo]
    /\ blCache = [k \in BlKeys |-> NoDir]
    /\ blLast = "?"
    /\ blSession = 1
    /\ spOpen = FALSE
    /\ spPath = ""
    /\ spToken = ""
    /\ spCache = [k \in SpKeys |-> NoDir]
    /\ spLast = "?"
    /\ spSession = 1
    /\ inProgress = FALSE
    /\ busyUntil = 0
    /\ lastTime = 0
    /\ lastPath = NoDir
    /\ lastScan = 0
    /\ lastActiveWrite = 0
    /\ pending = NoPending
    /\ stack = <<>>
    /\ resLog = [k \in BlKeys \cup SpKeys |-> {}]
    /\ rd = NoRead
    /\ cnt = EmptyCount
    /\ hp = NoHighPoly
    /\ roots = NoRoots
    /\ peer = NoPeer
    /\ regio = [sp |-> NoLoad, bl |-> NoLoad]
    /\ temps = [sp |-> NoTempFile, bl |-> NoTempFile]
    /\ hbSp = [NoInfo EXCEPT !.exists = TRUE, !.ts = StartTime]
    /\ blFile = "/doc.ext"

Next ==
    \/ SpPoll
    \/ SpReloadDone
    \/ SpDialogClose
    \/ SpUserClose
    \/ BlSend
    \/ BlRestart
    \/ BlSendForceNew
    \/ Tick

Spec == Init /\ [][Next]_vars

-----------------------------------------------------------------------------
(* Reads of the active-session records *)

\* seconds are let pass until the records on disk are about max-age old;
\* the reads below are those made after that
Wait ==
    /\ now < StartTime + ACTIVE_SP_INFO_MAX_AGE - 1
    /\ \E d \in {ACTIVE_SP_INFO_MAX_AGE - 1, ACTIVE_SP_INFO_MAX_AGE,
                  ACTIVE_SP_INFO_MAX_AGE + 1} :
         Commit([World EXCEPT !.now = @ + d])

\* the texturing side looks for the mesh editor's record
ReadActiveBlender ==
    /\ now > StartTime
    /\ Commit([World EXCEPT !.rd = [reader |-> "find_active_blender_info", at |-> now,
                                 info |-> find_active_blender_info(World),
                                 file |-> hbBl]])

\* the mesh-editor side looks for the texturing application's record
ReadActiveSp ==
    /\ now > StartTime
    /\ Commit([World EXCEPT !.rd = [reader |-> "find_active_sp_project_info", at |-> now,
                                 info |-> find_active_sp_project_info(World),
                                 file |-> hbSp]])

\* the mesh-editor side resolves the record of the project it is linked to
ResolveActiveSp ==
    /\ now > StartTime
    /\ Commit((LET w1 == resolve_active_sp_project_info(World)
               IN  [w1 EXCEPT !.rd = [reader |-> "resolve_active_sp_project_info",
                       at |-> now, info |-> w1.info,
                       file |-> w1.hbSpDir[w1.ret]]]))

SpecStale ==
    /\ Init
    /\ [][\/ SpPollWith(HostOk)
          \/ SpUserSaveAs
          \/ SpUserOpen
          \/ SpRestart
          \/ BlSend
          \/ Wait
          \/ ReadActiveBlender
          \/ ReadActiveSp
          \/ ResolveActiveSp]_vars

-----------------------------------------------------------------------------
(* The link registry on its own: updates with arguments drawn from the paths *)
(* of the model, in either spelling                                          *)

SpInputs == {"/a.spp", "/A.spp", "/b.spp"}
BlInputs == {"/doc.ext", "/DOC.ext", "/other.ext"}

\* gob_sp.update_link_registry(s, f, update_blender_link)
RegUpdateSp(s, f, update_blender_link) ==
    Commit(sp_update_link_registry(World, s, f, update_blender_link))

\* gob_bl.update_link_registry(s, f)
RegUpdateBl(s, f) ==
    Commit(bl_update_link_registry(World, s, f))

\* gob_sp.update_link_registry up to the return of load_link_registry
RegLoadSp(s, f, update_blender_link) ==
    /\ ~regio.sp.active
    /\ Commit([World EXCEPT !.regio.sp =
                  [active |-> TRUE,
                   data |-> load_link_registry(World, sp_link_registry_paths(roots)),
                   s |-> s, f |-> f, update_blender_link |-> update_blender_link]])

\* gob_sp.update_link_registry from there on: the maps of the loaded data are
\* changed and save_link_registry writes them
RegSaveSp ==
    /\ regio.sp.active
    /\ Commit(save_link_registry(
                  [World EXCEPT !.regio.sp = NoLoad],
                  [regio.sp.data
                      EXCEPT !.s2b[normalize_path_key(regio.sp.s)] = regio.sp.f,
                             !.b2s[normalize_path_key(regio.sp.f)] =
                                 IF regio.sp.update_blender_link
                                 THEN regio.sp.s ELSE @],
                  sp_link_registry_paths(roots)))

\* gob_bl.update_link_registry up to the return of load_link_registry
RegLoadBl(s, f) ==
    /\ ~regio.bl.active
    /\ Commit([World EXCEPT !.regio.bl =
                  [active |-> TRUE,
                   data |-> load_link_registry(World, bl_link_registry_paths(roots)),
                   s |-> s, f |-> f, update_blender_link |-> TRUE]])

\* gob_bl.update_link_registry from there on
RegSaveBl ==
    /\ regio.bl.active
    /\ Commit(save_link_registry(
                  [World EXCEPT !.regio.bl = NoLoad],
                  [regio.bl.data
                      EXCEPT !.s2b[normalize_path_key(regio.bl.s)] = regio.bl.f,
                             !.b2s[normalize_path_key(regio.bl.f)] = regio.bl.s],
                  bl_link_registry_paths(roots)))

SpecReg ==
    /\ Init
    /\ [][\/ \E s \in SpInputs, f \in BlInputs, u \in BOOLEAN : RegUpdateSp(s, f, u)
          \/ \E s \in SpInputs, f \in BlInputs : RegUpdateBl(s, f)]_vars

\* two documents of the same name opened, saved and sent on the mesh-editor
\* side, which may restart; imports and saves on the texturing side
SpecDir ==
    /\ Init
    /\ [][\/ \E f \in {"/doc.ext", "/x/doc.ext"} : BlOpenTo(f)
          \/ BlHeartbeat
          \/ BlSend
          \/ BlRestart
          \/ SpPollWith(HostOk)
          \/ SpUserSaveAs]_vars

\* force-new exports only, with restarts of the texturing application (launched
\* with or without a force-new token), saved projects and the manual import
SpecForce ==
    /\ Init
    /\ [][\/ SpPoll
          \/ SpImport
          \/ SpDialogClose
          \/ SpUserOpen
          \/ SpRestart
          \/ BlSendForceNew]_vars

-----------------------------------------------------------------------------
(* Properties of the auto-import poll *)

\* what one poll tick does from the current state when the host answers o
PollOutcome(o) == auto_import_poll(World, o)

\* the tick got as far as the import decision for a manifest it has read
PollDecides(o) ==
    /\ PollOutcome(o).seen.exists
    /\ PollOutcome(o).seen.auto_import
    /\ ~inProgress
    /\ ~(busyUntil # 0 /\ now < busyUntil)

FirstDir == <<"doc", 0>>

\* C1: for a manifest whose path and timestamp stay unchanged, the poll ticks
\* of one process start at most one reload-or-create action in total (a
\* reload counts when the host accepted the call, a create when it succeeded).
C1_AtMostOneActionPerManifest ==
    \A t \in 1..MaxSends : cnt.n[t].started <= 1

\* C2: from no prior state, once the mesh editor has written its first
\* manifest for /doc.ext with auto_import set and the mesh beside it, the poll
\* tick that reads it creates a document and leaves auto_import = false in the
\* manifest on disk.
C2_FreshState ==
    /\ seq = 1
    /\ dirs = {FirstDir}
    /\ FirstDir \in meshes
    /\ man[FirstDir].source = "blender"
    /\ man[FirstDir].blender_file = "/doc.ext"
    /\ man[FirstDir].auto_import
    /\ reg = EmptyRegistry
    /\ ~spOpen
    /\ lastPath = NoDir

C2_FirstPollCreates ==
    [][(C2_FreshState /\ PollDecides(HostOk) /\ SpPollWith(HostOk))
        => /\ spOpen'
           /\ cnt'.n[1].started = 1
           /\ cnt'.n[1].succeeded = 1
           /\ man'[FirstDir].exists
           /\ ~man'[FirstDir].auto_import
           /\ man'[FirstDir].ts = 1]_vars

C2_Created ==
    /\ seq = 1
    /\ spOpen
    /\ cnt.n[1].succeeded = 1
    /\ man[FirstDir].blender_file = "/doc.ext"
    /\ ~man[FirstDir].auto_import

\* C3: while the document paired with /doc.ext is open and ready, a poll tick
\* that reads a pending manifest without force_new_project for /doc.ext starts
\* a reload of the open document, and no poll tick in that situation creates
\* a document, whatever the host answers.
C3_Situation(o) ==
    /\ spOpen
    /\ Paired(World) = "/doc.ext"
    /\ blender_to_sp(reg, "/doc.ext") = get_sp_project_file_path_or_temp(World)
    /\ find_active_blender_info(World).exists
    /\ PollDecides(o)
    /\ PollOutcome(o).seen.blender_file = "/doc.ext"
    /\ ~PollOutcome(o).seen.force_new
    /\ ~(PollOutcome(o).mdir = lastPath /\ PollOutcome(o).seen.ts <= lastTime)

C3_ReloadInPlace ==
    [][/\ (C3_Situation(HostOk) /\ SpPollWith(HostOk))
          => /\ pending'.active
             /\ pending'.m.blender_file = "/doc.ext"
             /\ pending'.dir = PollOutcome(HostOk).mdir
             /\ inProgress'
             /\ spOpen' /\ spPath' = spPath
             /\ spSession' = spSession
             /\ dirs' = dirs
       /\ \A o \in HostOutcomes(World) :
            (C3_Situation(o) /\ SpPollWith(o))
              => /\ PollOutcome(o).act # "create"
                 /\ spOpen' /\ spPath' = spPath
                 /\ dirs' = dirs]_vars

C3_Reloading ==
    /\ spOpen
    /\ pending.active
    /\ pending.m.ts = 2
    /\ pending.m.blender_file = "/doc.ext"
    /\ man[FirstDir].ts = 2
    /\ cnt.n[1].succeeded = 1

\* C4: while a document paired with /doc.ext is open, a poll tick that reads
\* a pending manifest for /other.ext without force_new_project starts no
\* reload and no create, leaves every manifest as it is and opens no dialog.
C4_Situation(o) ==
    /\ spOpen
    /\ Paired(World) = "/doc.ext"
    /\ PollDecides(o)
    /\ PollOutcome(o).seen.blender_file = "/other.ext"
    /\ ~PollOutcome(o).seen.force_new

C4_ForeignIgnored ==
    [][\A o \in HostOutcomes(World) :
         (C4_Situation(o) /\ SpPollWith(o))
           => /\ PollOutcome(o).act = "none"
              /\ ~PollOutcome(o).dlg
              /\ pending' = pending
              /\ inProgress' = inProgress
              /\ stack' = stack
              /\ man' = man
              /\ order' = order
              /\ cnt' = cnt
              /\ spOpen' /\ spPath' = spPath]_vars

C4_ForeignPending ==
    /\ spOpen
    /\ Paired(World) = "/doc.ext"
    /\ ~inProgress
    /\ hbBl.dir = <<"other", 0>>
    /\ man[<<"other", 0>>].auto_import
    /\ man[<<"other", 0>>].blender_file = "/other.ext"
    /\ ~man[<<"other", 0>>].force_new
    /\ lastScan = now
    /\ lastActiveWrite = now

-----------------------------------------------------------------------------
(* Force-new isolation *)

\* what the manual import does from the current state when the host answers o
ImportOutcome(o) == import_from_blender([World EXCEPT !.called = TRUE], NoDir, FALSE, o)

\* the handler reached a force-new manifest while a document is open in an
\* instance whose launch token is empty or differs from the manifest's
ForeignForceNew(v) ==
    /\ spOpen
    /\ v.seen.exists
    /\ v.seen.force_new
    /\ (spToken = "" \/ spToken # v.seen.token)

\* the handler accepted the manifest it read: it closed the open document or
\* called sp.project.create
Accepted(v) == v.closed \/ v.act \in {"create", "create_failed"}

\* C5: a force-new manifest with token T is accepted, by the poll and by the
\* manual import, only by an instance whose launch token is T or which has no
\* document open; an instance with a document open and another or no token
\* keeps its document and creates none from that manifest.
C5_ForceNewIsolation ==
    [][\A o \in HostOutcomes(World) :
         LET p == PollOutcome(o)
             i == ImportOutcome(o)
         IN /\ (SpPollWith(o) /\ p.seen.force_new /\ Accepted(p))
                 => (~spOpen \/ (spToken # "" /\ spToken = p.seen.token))
            /\ (SpImportWith(o) /\ i.seen.force_new /\ Accepted(i))
                 => (~spOpen \/ (spToken # "" /\ spToken = i.seen.token))
            /\ (SpPollWith(o) /\ ForeignForceNew(p))
                 => /\ ~Accepted(p)
                    /\ spOpen' /\ spPath' = spPath /\ spToken' = spToken
                    /\ pending' = pending
            /\ (SpImportWith(o) /\ ForeignForceNew(i))
                 => /\ ~Accepted(i)
                    /\ spOpen' /\ spPath' = spPath /\ spToken' = spToken
                    /\ pending' = pending]_vars

\* a saved project is open in an instance launched without the token of the
\* pending force-new manifest, and the manual import has just been refused
C5_Refused ==
    /\ spOpen
    /\ spPath = "/a.spp"
    /\ spToken = ""
    /\ Len(stack) = 1
    /\ stack[1].kind = "import"
    /\ \E d \in dirs : /\ man[d].force_new
                       /\ man[d].auto_import
                       /\ man[d].token # ""
                       /\ d = find_latest_manifest(World, "blender")

-----------------------------------------------------------------------------
(* Staleness of the active-session records *)

\* C6: every reader of an active-session record (find_active_blender_info,
\* find_active_sp_project_info, resolve_active_sp_project_info) ignores a
\* record written more than max-age (120) seconds before the read, and the
\* two find_ readers return the record in the file when it is younger.
C6_StaleRecordIgnored ==
    /\ rd.info.exists => rd.at - rd.info.ts <= ACTIVE_SP_INFO_MAX_AGE
    /\ (rd.reader = "find_active_blender_info" /\ rd.file.exists
          /\ rd.at - rd.file.ts < ACTIVE_BLENDER_INFO_MAX_AGE)
         => rd.info = rd.file
    /\ (rd.reader = "find_active_sp_project_info"
          /\ read_active_sp_info(rd.file).exists
          /\ rd.at - rd.file.ts < ACTIVE_SP_INFO_MAX_AGE)
         => rd.info = rd.file

-----------------------------------------------------------------------------
(* Link registry round trip *)

\* C7: after update(A, B) the forward lookup of A gives B and the backward
\* lookup of B gives A; a later update(A, C) with update_blender_link = False
\* makes the forward lookup of A give C and leaves the backward lookup of C
\* as it was, empty when C had no link.
C7_RegistryRoundTrip ==
    [][\A a \in SpInputs, b \in BlInputs :
         /\ RegUpdateSp(a, b, TRUE)
              => /\ sp_to_blender(reg', a) = b
                 /\ blender_to_sp(reg', b) = a
                 /\ resolve_primary_sp_project_for_blender(reg', b, "") = a
         /\ RegUpdateSp(a, b, FALSE)
              => /\ sp_to_blender(reg', a) = b
                 /\ blender_to_sp(reg', b) = blender_to_sp(reg, b)
                 /\ (blender_to_sp(reg, b) = ""
                       => resolve_primary_sp_project_for_blender(reg', b, "") = "")]_vars

\* update("/a.spp", "/doc.ext") and then update("/a.spp", "/other.ext") with
\* the reverse write suppressed
C7_SuppressedUpdate ==
    /\ sp_to_blender(reg, "/a.spp") = "/other.ext"
    /\ blender_to_sp(reg, "/doc.ext") = "/a.spp"
    /\ blender_to_sp(reg, "/other.ext") = ""

-----------------------------------------------------------------------------
(* Project directories *)

\* C8: within one process lifetime every call of the project-directory
\* resolver with the same document identity returns the same directory.
C8_ResolverStable ==
    \A k \in BlKeys \cup SpKeys : Cardinality(resLog[k]) <= 1

\* the directory whose manifest was written for document f by an export
OwnDir(f) ==
    {d \in dirs : man[d].exists /\ man[d].source = "blender"
                  /\ man[d].blender_file = f}

\* C9: two distinct documents with the same sanitized name resolve to two
\* distinct directories, and once a manifest has been written for one of
\* them no resolution of the other returns that directory.
C9_NeverMerged ==
    /\ resLog["/doc.ext"] \cap resLog["/x/doc.ext"] = {}
    /\ \A d \in OwnDir("/doc.ext") : d \notin resLog["/x/doc.ext"]
    /\ \A d \in OwnDir("/x/doc.ext") : d \notin resLog["/doc.ext"]

\* C10: unique_project_dir(base, identity) returns a directory that does not
\* exist yet or an existing one whose manifest records identity; never one
\* whose manifest records another document.
C10_UniqueDirNotForeign ==
    /\ \A n \in Names, f \in BlKeys \cup {""} :
         LET r == bl_unique_project_dir(World, BaseDir(n), f)
         IN /\ r # NoDir
            /\ r \notin dirs \/ manifest_matches_blender_file(man[r], f)
    /\ \A n \in Names, s \in SpKeys \cup {""} :
         LET r == sp_unique_project_dir(World, BaseDir(n), s)
         IN /\ r # NoDir
            /\ r \notin dirs \/ manifest_matches_sp_project_file(man[r], s)

\* the base directory belongs to /doc.ext, so /x/doc.ext is given the next
\* one, which its own manifest then records
C10_SkippedForeign ==
    /\ man[<<"doc", 0>>].exists
    /\ man[<<"doc", 0>>].blender_file = "/doc.ext"
    /\ man[<<"doc", 1>>].exists
    /\ man[<<"doc", 1>>].blender_file = "/x/doc.ext"
    /\ bl_unique_project_dir(World, <<"doc", 0>>, "/x/doc.ext") = <<"doc", 1>>
    /\ bl_unique_project_dir(World, <<"doc", 0>>, "/other.ext") = <<"doc", 2>>

-----------------------------------------------------------------------------
(* Outcome of the operations the poll starts *)

\* the call the tick made to sp.project.reload_mesh or sp.project.create
\* raised, the recognized busy error included
PollFailed(o) ==
    /\ PollOutcome(o).called
    /\ PollOutcome(o).act \in {"busy", "raised", "create_failed"}

\* C11: when a create or a reload started by the poll succeeds, the manifest
\* it was started for has auto_import = false afterwards; when the reload
\* callback reports failure, when the reload or create call raises and when
\* the host is busy, that manifest still has auto_import = true.
C11_ClearedOnSuccessOnly ==
    [][/\ \A o \in HostOutcomes(World) :
            /\ (SpPollWith(o) /\ PollOutcome(o).called /\ PollOutcome(o).act = "create")
                 => ~man'[PollOutcome(o).mdir].auto_import
            /\ (SpPollWith(o) /\ PollFailed(o))
                 => /\ man'[PollOutcome(o).mdir].exists
                    /\ man'[PollOutcome(o).mdir].auto_import
       /\ \A o \in {HostOk, HostError} :
            /\ (pending.clear /\ SpReloadDoneWith("success", o))
                 => ~man'[pending.dir].auto_import
            /\ (/\ pending.clear
                /\ SpReloadDoneWith("failure", o)
                /\ (pending.attempted_fallback \/ o.fallback = "error"))
                 => /\ man'[pending.dir].exists
                    /\ man'[pending.dir].auto_import]_vars

\* an operation the poll started for a manifest failed, a later tick started
\* it again with success, and the manifest no longer asks for an import
C11_FailedThenCleared ==
    \E t \in 1..MaxSends :
        /\ cnt.n[t].failed >= 1
        /\ cnt.n[t].succeeded >= 1
        /\ \E d \in dirs : man[d].ts = t /\ ~man[d].auto_import

-----------------------------------------------------------------------------
(* Retry and back-off.  The manual import is part of this specification     *)
(* because it creates a document without clearing auto_import, so that the  *)
(* first manifest is already a reload candidate.                            *)

SpecRetry ==
    /\ Init
    /\ [][\/ SpPollWith(HostOk)
          \/ SpPollWith(HostBusy)
          \/ SpImportWith(HostOk)
          \/ SpDialogClose
          \/ BlSend
          \/ Tick]_vars

\* an operation the poll started for the manifest with timestamp t has
\* failed and none has succeeded
FailedOnly(t) ==
    /\ t \in 1..MaxSends
    /\ cnt.n[t].failed >= 1
    /\ cnt.n[t].succeeded = 0

\* C12: after an operation started by the poll for a manifest has failed
\* (busy included), a poll tick that runs with no operation in progress, no
\* dialog open and the back-off elapsed, and that reads the same manifest
\* still targeting the open document, calls reload or create again.
C12_FailedAttemptRetried ==
    [][\A o \in HostOutcomes(World) :
         (/\ stack = <<>>
          /\ PollDecides(o)
          /\ FailedOnly(PollOutcome(o).seen.ts)
          /\ PollOutcome(o).flag
          /\ o.ready
          /\ SpPollWith(o))
           => /\ PollOutcome(o).called
              /\ PollOutcome(o).act \in {"reload", "create", "busy", "raised",
                                         "create_failed"}]_vars

\* C13: while a reload started by the receiving side has not reported its
\* completion, the in-progress flag is set, and a poll tick that finds the
\* flag set or a reload outstanding calls neither reload nor create and
\* leaves the outstanding operation as it is.
C13_NoReentrantStart ==
    [][/\ pending.active => inProgress
       /\ \A o \in HostOutcomes(World) :
            ((inProgress \/ pending.active) /\ SpPollWith(o))
              => /\ ~PollOutcome(o).called
                 /\ PollOutcome(o).act = "none"
                 /\ pending' = pending
                 /\ inProgress' = inProgress
                 /\ cnt' = cnt
                 /\ spOpen' = spOpen]_vars

\* a reload is outstanding after its callback asked for the fallback, the
\* poll has run at this time, and the manifest of the reload still asks for
\* an import and is not marked as handled
C13_ReloadOutstanding ==
    /\ pending.active
    /\ pending.attempted_fallback
    /\ inProgress
    /\ lastActiveWrite = now
    /\ man[pending.dir].auto_import
    /\ man[pending.dir].ts = pending.m.ts
    /\ ~(pending.dir = lastPath /\ pending.m.ts <= lastTime)

\* C14: the tick whose reload call fails with the busy error sets the
\* back-off to 2 seconds after its own time and opens no dialog, and no tick
\* that runs before the back-off has elapsed calls reload or create.
C14_BusyBackoff ==
    [][\A o \in HostOutcomes(World) :
         /\ (SpPollWith(o) /\ PollOutcome(o).called /\ PollOutcome(o).act = "busy")
              => /\ busyUntil' = now + 2
                 /\ ~PollOutcome(o).dlg
                 /\ stack' = stack
                 /\ ~inProgress'
         /\ (busyUntil # 0 /\ now < busyUntil /\ SpPollWith(o))
              => /\ ~PollOutcome(o).called
                 /\ pending' = pending
                 /\ cnt' = cnt
                 /\ lastScan' = lastScan]_vars

\* a reload failed busy, the back-off has not elapsed, and a newer manifest
\* for the open document is waiting
C14_WaitingInBackoff ==
    /\ busyUntil # 0
    /\ now < busyUntil
    /\ spOpen
    /\ lastActiveWrite = now
    /\ \E d \in dirs : /\ man[d].auto_import
                       /\ man[d].ts = 2
                       /\ ~(d = lastPath /\ man[d].ts <= lastTime)

-----------------------------------------------------------------------------
(* The high-poly mesh and its retry loop *)

\* the retry timer fires
SpHighRetry ==
    /\ hp.running
    /\ \E ok \in BOOLEAN : Commit(on_retry(World, ok))

\* the dispatcher calls the handlers connected to ProjectEditionEntered, in
\* the order they were connected; each disconnects itself
RECURSIVE ProjectEditionEntered(_, _, _)
ProjectEditionEntered(w, handlers, ok) ==
    IF handlers = <<>> THEN w
    ELSE ProjectEditionEntered(
             on_enter([w EXCEPT !.hp.enter = Tail(@)], Head(handlers), ok),
             Tail(handlers), ok)

\* the open project enters the edition state
SpEditionEntered ==
    /\ spOpen
    /\ hp.enter # <<>>
    /\ \E ok \in BOOLEAN : Commit(ProjectEditionEntered(World, hp.enter, ok))

\* GOB_OT_SendToSP with the preference export_high_poly on
BlSendHigh ==
    /\ seq < MaxSends
    /\ \E h \in {"exported", "none"} :
         Commit(SendToSP([World EXCEPT !.hpref = h], FALSE))

SpecHigh ==
    /\ Init
    /\ [][\/ BlSendHigh
          \/ BlSend
          \/ \E e, a \in BOOLEAN :
                  SpPollWith([HostOk EXCEPT !.ready = e, !.attach = a])
          \/ \E e, a \in BOOLEAN :
                  SpReloadDoneWith("success", [HostOk EXCEPT !.ready = e, !.attach = a])
          \/ SpDialogClose
          \/ SpHighRetry
          \/ SpEditionEntered
          \/ Tick]_vars

Stopped(h) == ~h.running /\ h.remaining = 0 /\ h.path = NoDir

\* C15: once queued for a high-poly mesh, the retry timer makes at most
\* HIGH_POLY_RETRY_COUNT attach attempts between two queue requests; after the
\* last of them, and after the first one that attaches, the loop is stopped
\* with no remaining count and no target path; until then the attempts made
\* and the remaining count add up to HIGH_POLY_RETRY_COUNT
C15_RetryBounded ==
    [][SpHighRetry =>
         /\ hp'.tries <= HIGH_POLY_RETRY_COUNT
         /\ hp'.tries = HIGH_POLY_RETRY_COUNT => Stopped(hp')
         /\ hp'.attached # {} => Stopped(hp')
         /\ ~Stopped(hp') => /\ hp'.running
                             /\ hp'.path = hp.path
                             /\ hp'.tries = hp.tries + 1
                             /\ hp'.remaining + hp'.tries = HIGH_POLY_RETRY_COUNT]_vars

\* the loop gave up after HIGH_POLY_RETRY_COUNT failed attempts
C15_Exhausted ==
    /\ hp.tries = HIGH_POLY_RETRY_COUNT
    /\ Stopped(hp)
    /\ hp.mesh = NoDir
    /\ hp.want # NoDir

\* C16: once a manifest has been imported, whatever is attached afterwards,
\* by the retry timer or by a ready-state handler, is the high-poly mesh of
\* the manifest imported last; nothing is attached when that manifest
\* carries none
C16_OlderNeverAttached ==
    \A p \in hp.attached : p = hp.want

-----------------------------------------------------------------------------
(* Manifest files that hold something else than a manifest *)

\* another writer leaves d/.gob_meta/bridge.json malformed, or holding a JSON
\* value that is not an object
Damage ==
    \E d \in dirs, j \in {"torn", "falsy", "truthy"} :
        Commit([World EXCEPT !.man[d] = [NoManifest EXCEPT !.json = j],
                             !.order = Touch(@, d)])

\* exports into an intact tree, damage, and polls while the host fails every
\* create, so that no project is open and the poll reads manifests only where
\* auto_import_poll says
SpecTorn ==
    /\ Init
    /\ [][\/ (\A d \in Dir : man[d].json = "object") /\ BlSend
          \/ Damage
          \/ SpPollWith(HostError)
          \/ SpDialogClose
          \/ Tick]_vars

\* C17: no poll tick lets an exception escape, whatever the manifest files
\* hold; a manifest file that is malformed or holds no object is taken for no
\* manifest, and the tick then starts nothing for it
C17_PollNeverRaises ==
    [][SpPollWith(HostError) =>
         /\ ~PollOutcome(HostError).exc
         /\ (\A d \in dirs : ~man[d].exists) => ~PollOutcome(HostError).called]_vars

-----------------------------------------------------------------------------
(* Resolution of the bridge root *)

\* the processes are started with some value of the environment variable, and
\* the user sets the preference
Environment ==
    \E e \in {""} \cup Roots, p \in {""} \cup Roots :
        Commit([World EXCEPT !.roots = [@ EXCEPT !.env = e, !.pref = p]])

\* the hint files are as another user or an earlier installation left them
HintsLeft ==
    \E h \in [Roots -> {"missing", "torn", "{}"} \cup Roots],
       s \in {"missing", "torn", "{}"} \cup Roots :
        Commit([World EXCEPT !.roots = [@ EXCEPT !.hintAt = h, !.shared = s]])

SpecRoot ==
    /\ Init
    /\ [][\/ Environment
          \/ HintsLeft
          \/ BlSend]_vars

\* the root the claimed precedence gives: the environment variable, else the
\* hint of the default location, else the shared hint, else the default
ClaimedRoot ==
    IF roots.env # "" THEN roots.env
    ELSE IF roots.hintAt[DefaultRoot] \in Roots THEN roots.hintAt[DefaultRoot]
    ELSE IF roots.shared \in Roots THEN roots.shared
    ELSE DefaultRoot

\* C18: get_bridge_root returns, on the receiving side and on the mesh-editor
\* side, the environment override when it is set, else the root of the hint
\* file of the default location, else the root of the shared hint file, else
\* the computed default
C18_RootPrecedence ==
    /\ sp_get_bridge_root(roots) = ClaimedRoot
    /\ bl_get_bridge_root(roots) = ClaimedRoot

-----------------------------------------------------------------------------
(* The registry files of the roots *)

\* a registry file is in "/custom", left there when that folder was the
\* documents root of an installation
RegistryLeft ==
    /\ ~roots.links.file
    /\ \E old \in {EmptyRegistry,
                    [EmptyRegistry EXCEPT !.s2b["/b.spp"] = "/other.ext",
                                          !.b2s["/other.ext"] = "/b.spp"]} :
          Commit([World EXCEPT !.roots.made = @ \cup {"/custom"},
                               !.roots.links = [file |-> TRUE, data |-> old]])

SpecMirror ==
    /\ Init
    /\ [][\/ Environment
          \/ BlSend
          \/ RegistryLeft
          \/ \E f \in BlInputs : RegUpdateSp("/a.spp", f, TRUE)
          \/ \E s \in SpInputs : RegUpdateBl(s, "/doc.ext")]_vars

\* every root on the list holds the registry of the documents root, and that
\* is what load_link_registry returns
Mirrored(paths) ==
    /\ Len(paths) > 1 => roots.links.file /\ roots.links.data = reg
    /\ load_link_registry(World, paths) = reg

\* the registry files that are on the list equal that of the documents root,
\* and load_link_registry returns the latter on either side
ExistingMirrored(paths) ==
    /\ Len(paths) > 1 /\ roots.links.file => roots.links.data = reg
    /\ load_link_registry(World, sp_link_registry_paths(roots)) = reg
    /\ load_link_registry(World, bl_link_registry_paths(roots)) = reg

-----------------------------------------------------------------------------
(* The registry after a document has been saved under a new path *)

\* the project of the texturing application is paired under its previous path
\* and has been saved under another one
SpSavedAs ==
    /\ spOpen
    /\ spLast # "?"
    /\ spPath # ""
    /\ ~paths_match(spPath, spLast)
    /\ sp_to_blender(reg, spLast) # ""

\* the file of the mesh editor is paired under its previous path and is now f
BlSavedAs(f) ==
    /\ blLast # "?"
    /\ f # ""
    /\ ~paths_match(f, blLast)
    /\ blender_to_sp(reg, blLast) # ""

\* C20: when a paired document has been saved under a new path, the handler
\* that notices it (the heartbeat of the texturing application, save_post of
\* the mesh editor) leaves a registry that maps the new path to the paired
\* document and, unless the project directory is a force-new one, the paired
\* document back to the new path
C20_SavedPathRewritten ==
    [][/\ (SpSavedAs /\ SpPollWith(HostOk) /\ spLast' = spPath)
            => /\ sp_to_blender(reg', spPath) = sp_to_blender(reg, spLast)
               /\ \/ is_force_new_project_dir(sp_get_project_dir(World),
                                              sp_get_project_dir(World).ret)
                  \/ blender_to_sp(reg', sp_to_blender(reg, spLast)) = spPath
       /\ \A f \in {"/doc.ext", "/x/doc.ext"} :
            (BlSavedAs(f) /\ BlOpenTo(f))
              => /\ blender_to_sp(reg', f) = blender_to_sp(reg, blLast)
                 /\ sp_to_blender(reg', blender_to_sp(reg, blLast)) = f]_vars

-----------------------------------------------------------------------------
(* The natural directory *)

\* the natural directory of the open file exists and holds no manifest, and
\* the identity of the file has no cache entry, no registry pairing with a
\* manifest and no manifest of its own
NaturalDirFree ==
    LET f == get_blender_file_path_or_temp(World)
        base_dir == BaseDir(bl_get_project_name(World))
    IN /\ base_dir \in dirs
       /\ ~man[base_dir].exists
       /\ bl_cached_project_dir(World, f) = NoDir
       /\ project_dir_from_linked_sp(World, f) = NoDir
       /\ find_manifest_for_blender_file(World, f) = NoDir

\* C21: when the natural directory exists and holds no manifest, resolving an
\* identity without a cache, registry or manifest match returns the natural
\* directory, so the heartbeat after a restart names the directory the
\* heartbeat before it named
C21_NaturalDirReused ==
    [][(NaturalDirFree /\ BlHeartbeat)
         => hbBl'.dir = BaseDir(bl_get_project_name(World))]_vars

-----------------------------------------------------------------------------
(* The registry step of the resolver *)

\* the mesh editor's file is not cached, the registry pairs it with a project
\* and a manifest records that project: the resolver returns the directory of
\* that manifest
BlLinkedDirReused ==
    LET f == get_blender_file_path_or_temp(World)
        s == blender_to_sp(load_link_registry(World, bl_link_registry_paths(roots)), f)
        d == find_manifest_for_sp_project_file(World, s)
    IN (bl_cached_project_dir(World, f) = NoDir /\ s # "" /\ d # NoDir)
          => bl_get_project_dir(World).ret = d

\* the same for the open project of the texturing application and the
\* manifest that records the file it is paired with
SpLinkedDirReused ==
    LET s == get_sp_project_file_path_or_temp(World)
        f == sp_to_blender(load_link_registry(World, sp_link_registry_paths(roots)), s)
        d == find_manifest_for_blender_file(World, f)
    IN (spOpen /\ sp_cached_project_dir(World, s) = NoDir /\ f # "" /\ d # NoDir)
          => sp_get_project_dir(World).ret = d

\* C22: on either side, when the identity is not cached, the link registry
\* maps it to the other side's document and a manifest recording that document
\* exists, the resolver returns the project directory of that manifest
C22_LinkedDirReused ==
    /\ BlLinkedDirReused
    /\ SpLinkedDirReused

-----------------------------------------------------------------------------
(* An import that is turned down for the open project *)

\* exports with and without a high-poly mesh; the user of the texturing
\* application opens projects and imports by hand
SpecManual ==
    /\ Init
    /\ [][\/ BlSendHigh
          \/ SpPollWith(HostOk)
          \/ SpImportWith(HostOk)
          \/ SpUserOpen
          \/ SpDialogClose
          \/ SpHighRetry]_vars

\* the handler read manifest v.seen of directory v.mdir, whose mesh is there,
\* while a project is open that the manifest does not target
TurnedDown(v) ==
    /\ spOpen
    /\ v.mdir # NoDir
    /\ v.seen.exists
    /\ ~v.seen.force_new
    /\ v.mdir \in meshes \/ BaseDir(sanitize_name(v.seen.project)) \in meshes
    /\ ~manifest_targets_current_project(World, v.seen, v.mdir).flag

\* the open project, its high-poly reference, the retry loop, the manifests
\* and the registry are what they were
Undisturbed ==
    /\ spOpen' = spOpen
    /\ spPath' = spPath
    /\ pending' = pending
    /\ inProgress' = inProgress
    /\ hp'.mesh = hp.mesh
    /\ hp'.running = hp.running
    /\ hp'.remaining = hp.remaining
    /\ hp'.path = hp.path
    /\ hp'.enter = hp.enter
    /\ man' = man
    /\ reg' = reg

\* C25: an import that is rejected because the manifest targets another
\* document than the open one (no force_new_project), by the poll or by the
\* manual import, leaves the receiving side as it was: no reload, no close,
\* the high-poly reference and a pending high-poly retry untouched, neither
\* manifest nor registry written
C25_RejectedImportChangesNothing ==
    [][/\ (TurnedDown(ImportOutcome(HostOk)) /\ SpImportWith(HostOk)) => Undisturbed
       /\ (/\ PollOutcome(HostOk).seen.exists
           /\ PollOutcome(HostOk).seen.auto_import
           /\ TurnedDown(PollOutcome(HostOk))
           /\ now - lastActiveWrite < AUTO_IMPORT_ACTIVE_WRITE_INTERVAL
           /\ SpPollWith(HostOk)) => Undisturbed]_vars

-----------------------------------------------------------------------------
(* The most recent active-session record of several locations *)

\* what a location can hold at time t: no readable record, or a record
\* written some seconds before t (or, the clocks differing, after it)
RecordAges == {0, 1, ACTIVE_SP_INFO_MAX_AGE - 1, ACTIVE_SP_INFO_MAX_AGE,
               ACTIVE_SP_INFO_MAX_AGE + 1}

FilesAt(t) ==
    {NoInfo, [NoInfo EXCEPT !.exists = TRUE, !.open = TRUE, !.ts = t]}
        \cup {[NoInfo EXCEPT !.exists = TRUE, !.open = o, !.ts = t - a,
                             !.dir = <<"doc", 0>>]
                 : o \in BOOLEAN, a \in RecordAges \cup {-1}}

\* the texturing side scans the bridge root and the documents root for the
\* mesh editor's record
ReadLatestBlender ==
    \E t \in {StartTime + ACTIVE_SP_INFO_MAX_AGE + 1,
              StartTime + ACTIVE_SP_INFO_MAX_AGE + 2} :
     \E f1, f2 \in FilesAt(t) :
        Commit([World EXCEPT !.rd =
            [reader |-> "find_active_blender_info", at |-> t,
             files |-> <<f1, f2>>,
             info |-> read_latest(<<f1, f2>>, t, ACTIVE_BLENDER_INFO_MAX_AGE, NoInfo)]])

\* the mesh-editor side scans two candidate roots for the texturing
\* application's record
ReadLatestSp ==
    \E t \in {StartTime + ACTIVE_SP_INFO_MAX_AGE + 1,
              StartTime + ACTIVE_SP_INFO_MAX_AGE + 2} :
     \E f1, f2 \in FilesAt(t) :
        Commit([World EXCEPT !.rd =
            [reader |-> "find_active_sp_project_info", at |-> t,
             files |-> <<read_active_sp_info(f1), read_active_sp_info(f2)>>,
             info |-> read_latest(<<read_active_sp_info(f1), read_active_sp_info(f2)>>,
                                  t, ACTIVE_SP_INFO_MAX_AGE, NoInfo)]])

SpecLatest ==
    /\ Init
    /\ [][\/ ReadLatestBlender
          \/ ReadLatestSp]_vars

\* the readable records of the last scan that are not older than max_age
Surviving ==
    IF rd.reader = "none" THEN {}
    ELSE {rd.files[i] : i \in {j \in 1..2 :
              /\ rd.files[j].exists
              /\ rd.at - rd.files[j].ts <= ACTIVE_SP_INFO_MAX_AGE}}

\* C27: read_latest returns, among the readable records of the scanned
\* locations that are not older than max_age, one with the greatest
\* timestamp, and nothing when no such record is left
C27_LatestSurvivor ==
    /\ Surviving = {} => rd.info = NoInfo
    /\ Surviving # {} => /\ rd.info \in Surviving
                         /\ \A f \in Surviving : f.ts <= rd.info.ts

\* both records of the scan survive and the second, the younger one, is the
\* one returned
C27_SecondIsLatest ==
    /\ rd.reader = "find_active_blender_info"
    /\ Cardinality(Surviving) = 2
    /\ rd.info = rd.files[2]
    /\ rd.files[1].ts < rd.files[2].ts

-----------------------------------------------------------------------------
(* The hint one send leaves for the other side *)

\* C28: after the mesh-editor side has written the bridge-root hint for its
\* root R during a send, the receiving side, run without the environment
\* variable, has R among its candidate roots
C28_HintConverges ==
    [][BlSend => bl_get_bridge_root(roots)
                   \in sp_get_candidate_bridge_roots([roots' EXCEPT !.env = ""])]_vars

-----------------------------------------------------------------------------
(* Bookkeeping after a create *)

\* the handler created a document from manifest v.seen, which was pending,
\* is not a force-new one and names a file of the mesh editor
CreatedFromPending(v) ==
    /\ v.act = "create"
    /\ v.seen.exists
    /\ v.seen.auto_import
    /\ ~v.seen.force_new
    /\ v.seen.blender_file # ""

\* the document that is open
OpenDoc == get_sp_project_file_path_or_temp(World)

\* after the step the registry pairs the open document with file f in both
\* directions, and the manifest of directory d records the document and is no
\* longer pending
Booked(d, f) ==
    /\ sp_to_blender(reg', OpenDoc') = f
    /\ blender_to_sp(reg', f) = OpenDoc'
    /\ man'[d].sp_project_file = OpenDoc'
    /\ ~man'[d].auto_import

\* C29: after the receiving side has created a document from a pending
\* manifest (not force-new) that names blender_file B, the registry maps the
\* new document to B and B to the new document, the manifest of the project
\* directory records the new document as sp_project_file, and its auto_import
\* is false
C29_CreateBooked ==
    [][/\ (CreatedFromPending(PollOutcome(HostOk)) /\ SpPollWith(HostOk))
            => Booked(PollOutcome(HostOk).mdir, PollOutcome(HostOk).seen.blender_file)
       /\ (CreatedFromPending(ImportOutcome(HostOk)) /\ SpImportWith(HostOk))
            => Booked(ImportOutcome(HostOk).mdir,
                      ImportOutcome(HostOk).seen.blender_file)]_vars

-----------------------------------------------------------------------------
(* One project directory for both sides *)

\* after the step the resolver of the receiving side and the heartbeat it
\* has published name directory d for the open document
NamesDir(d) ==
    /\ hbSp'.dir = d
    /\ sp_get_project_dir(World)'.ret = d

\* C30: after the receiving side has created or reloaded a document from a
\* manifest of project directory D, get_project_dir and the heartbeat
\* written by the same handler name D as the project directory of the
\* document
C30_OneProjectDir ==
    [][/\ (PollOutcome(HostOk).act = "create" /\ SpPollWith(HostOk))
            => NamesDir(PollOutcome(HostOk).mdir)
       /\ (/\ pending.active
           /\ on_reload(World, "success", HostOk).act = "reloaded"
           /\ SpReloadDoneWith("success", HostOk))
            => NamesDir(pending.dir)]_vars

-----------------------------------------------------------------------------
(* Both directions of the bridge *)

\* exports in both directions: the mesh editor sends and imports, the
\* texturing application polls, imports by hand and sends back from a saved
\* project its user has opened
SpecRound ==
    /\ Init
    /\ [][\/ BlSend
          \/ BlOpenTo("")
          \/ BlImport
          \/ SpPollWith(HostOk)
          \/ SpImportWith(HostOk)
          \/ SpDialogClose
          \/ SpUserOpen
          \/ SpSend
          \/ SpSendNothing
          \/ Tick]_vars

\* what GOB_OT_ImportFromSP does from the current state
BlImportOutcome == ImportFromSP(World)

\* C23: the poll and the manual import of the texturing side never act on a
\* manifest whose source is not "blender", and the import of the mesh editor
\* never consumes one whose source is not "substance_painter", also when the
\* manifests of both directions are written to one directory
C23_OwnManifestSkipped ==
    /\ PollOutcome(HostOk).act # "none"
         => PollOutcome(HostOk).seen.source = "blender"
    /\ ImportOutcome(HostOk).act # "none"
         => ImportOutcome(HostOk).seen.source = "blender"
    /\ BlImportOutcome.act = "imported"
         => BlImportOutcome.seen.source = "substance_painter"

\* the texturing side has written its manifest over the mesh editor's in a
\* directory that holds the mesh: the mesh editor's import takes it, the
\* manual import of the texturing side finds nothing to act on
C23_SharedDirectory ==
    \E d \in dirs :
        /\ d \in meshes
        /\ man[d].source = "substance_painter"
        /\ BlImportOutcome.act = "imported"
        /\ BlImportOutcome.mdir = d
        /\ ImportOutcome(HostOk).act = "none"
        /\ PollOutcome(HostOk).act = "none"

-----------------------------------------------------------------------------
(* Where manifests are written *)

\* a directory holds a manifest of an earlier release at the legacy location;
\* the texturing application polls and the user saves the project
SpecLegacy ==
    /\ Init
    /\ [][\/ LegacyLeft
          \/ BlSend
          \/ SpPollWith(HostOk)
          \/ SpReloadDoneWith("success", HostOk)
          \/ SpUserSaveAs
          \/ Tick]_vars

-----------------------------------------------------------------------------
(* The registry of a second instance *)

\* a first instance pairs with the file, the mesh editor sends for a new
\* instance, which is started with the launch token, creates its document,
\* saves it and sends back
SpecSecond ==
    /\ Init
    /\ [][\/ BlSend
          \/ BlSendForceNew
          \/ SpPollWith(HostOk)
          \/ SpRestart
          \/ SpUserSaveAs
          \/ SpSend
          \/ Tick]_vars

\* a force-new manifest records document s as the project made from file f
SecondaryOf(f, s) ==
    \E d \in dirs : /\ man[d].exists
                    /\ man[d].force_new
                    /\ s # ""
                    /\ paths_match(man[d].sp_project_file, s)
                    /\ man[d].blender_file = f

\* after the step the registry maps the open document to file f and file f
\* to the project p it was paired with
SecondaryRecorded(f, p) ==
    /\ sp_to_blender(reg', OpenDoc') = f
    /\ blender_to_sp(reg', f) = p

\* C26: in the force-new flow every registry update of the secondary instance
\* (after the create, on a save-as, on a send) records secondary -> file but
\* leaves file -> project pointing at the primary project
C26_PrimaryLinkKept ==
    [][\A f \in BlKeys :
        LET p == blender_to_sp(reg, f)
        IN /\ (/\ p # ""
               /\ PollOutcome(HostOk).act = "create"
               /\ PollOutcome(HostOk).seen.force_new
               /\ PollOutcome(HostOk).seen.blender_file = f
               /\ SpPollWith(HostOk)) => SecondaryRecorded(f, p)
           /\ (/\ p # ""
               /\ spOpen
               /\ ~paths_match(p, OpenDoc)
               /\ SecondaryOf(f, OpenDoc)
               /\ SpSend) => SecondaryRecorded(f, p)
           /\ (/\ p # ""
               /\ spOpen
               /\ spLast # "?"
               /\ ~paths_match(spPath, spLast)
               /\ ~paths_match(p, spLast)
               /\ ~paths_match(p, spPath)
               /\ SecondaryOf(f, spLast)
               /\ SpPollWith(HostOk)
               /\ spLast' = spPath) => SecondaryRecorded(f, p)]_vars

-----------------------------------------------------------------------------
(* The force-new token *)

\* the handler accepted the force-new manifest it read because the launch
\* token of this instance is the manifest's token
AcceptedByToken(v) ==
    /\ v.seen.exists
    /\ v.seen.force_new
    /\ Accepted(v)
    /\ spToken # ""
    /\ spToken = v.seen.token

\* the send wrote a manifest with a token no manifest carried before into a
\* directory that did not exist before
FreshTokenFreshDir ==
    \E d \in dirs' \ dirs :
        /\ man'[d].force_new
        /\ man'[d].token # ""
        /\ \A e \in dirs : man[e].token # man'[d].token
        /\ \A e \in dirs : man'[e] = man[e]

\* C31: each force-new send mints a fresh token and writes its manifest into a
\* project directory that did not exist before, and once an instance has
\* accepted a force-new manifest because its launch token matched, by the poll
\* or by the manual import, the instance's token is cleared
C31_TokenOneTime ==
    [][/\ BlSendForceNew => FreshTokenFreshDir
       /\ \A o \in HostOutcomes(World) :
            /\ (SpPollWith(o) /\ AcceptedByToken(PollOutcome(o))) => spToken' = ""
            /\ (SpImportWith(o) /\ AcceptedByToken(ImportOutcome(o)))
                 => spToken' = ""]_vars

-----------------------------------------------------------------------------
(* An export that arrives during a reload *)

\* GOB_OT_SendToSP pressed while the reload of an earlier export is in flight
\* in the texturing application
BlSendDuringReload ==
    /\ pending.active
    /\ seq < MaxSends + MaxOverlaps
    /\ Commit(SendToSP(World, FALSE))

\* exports, the poll and the reloads it starts, with the host accepting every
\* call, and an export made while a reload is in flight
SpecOverlap ==
    /\ Init
    /\ [][\/ BlSend
          \/ BlSendDuringReload
          \/ SpPollWith(HostOk)
          \/ SpReloadDoneWith("success", HostOk)
          \/ SpDialogClose
          \/ Tick]_vars

\* a reload started by the poll is in flight, and the manifest it was started
\* from has since been overwritten by a newer export that is pending
Overwritten ==
    /\ pending.active
    /\ pending.clear
    /\ pending.dir \in dirs
    /\ man[pending.dir].auto_import
    /\ manifest_timestamp(man[pending.dir]) > manifest_timestamp(pending.m)

\* C32: when the sending side has overwritten a manifest with a newer pending
\* export while the reload of the older content is in flight, then after the
\* receiver has finished that reload the manifest on disk still carries the
\* newer export with auto_import true, or the newer export has been imported
C32_NewerNotLost ==
    [][\A o \in {HostOk, HostError} :
         (Overwritten /\ SpReloadDoneWith("success", o))
           => LET d  == pending.dir
                  ts == manifest_timestamp(man[d])
              IN \/ /\ manifest_timestamp(man'[d]) = ts
                    /\ man'[d].auto_import
                 \/ cnt'.n[ts].succeeded >= 1]_vars

-----------------------------------------------------------------------------
(* Two instances of the texturing application on one bridge root *)

\* exports, and the poll timers of two instances with the host accepting every
\* call; the first instance's reloads complete and its dialogs are dismissed
SpecPeers ==
    /\ Init
    /\ [][\/ BlSend
          \/ SpPollWith(HostOk)
          \/ SpPeerPollWith(HostOk)
          \/ SpReloadDoneWith("success", HostOk)
          \/ SpDialogClose
          \/ Tick]_vars

\* C33: with two instances polling the same bridge root, one pending manifest
\* leads to at most one reload-or-create action in total across both
C33_OneActionAcrossInstances ==
    \A t \in 1..MaxSends : cnt.n[t].started + peer.cnt.n[t].started <= 1

-----------------------------------------------------------------------------
(* A document that is not in its edition state yet *)

\* exports and the poll, with a host whose document is or is not in the
\* edition state when asked and which accepts every call otherwise; the user
\* may close the project
SpecReady ==
    /\ Init
    /\ [][\/ BlSend
          \/ SpPollWith(HostOk)
          \/ SpPollWith(HostNotReady)
          \/ SpReloadDoneWith("success", HostOk)
          \/ SpDialogClose
          \/ SpUserClose
          \/ Tick]_vars

\* the tick reads a pending manifest that targets the open document and for
\* which no reload or create was ever started
TargetsOpenUnstarted(v) ==
    /\ stack = <<>>
    /\ spOpen
    /\ v.seen.exists
    /\ v.seen.auto_import
    /\ ~v.seen.force_new
    /\ v.flag
    /\ ~inProgress
    /\ ~(busyUntil # 0 /\ now < busyUntil)
    /\ cnt.n[manifest_timestamp(v.seen)].started = 0

\* C34: a pending manifest that targets the open document while the document
\* is not in its edition state stays pending (the tick changes no manifest),
\* and a later tick that reads it unchanged with the document ready starts the
\* reload
C34_NotReadyRetried ==
    [][/\ (TargetsOpenUnstarted(PollOutcome(HostNotReady)) /\ SpPollWith(HostNotReady))
            => man' = man
       /\ (TargetsOpenUnstarted(PollOutcome(HostOk)) /\ SpPollWith(HostOk))
            => PollOutcome(HostOk).act = "reload"]_vars

-----------------------------------------------------------------------------
(* The poll after a manual import *)

\* the manual import has created the open document from the first export,
\* which the mesh editor has not overwritten: the manifest names the open
\* document (the first export is written without one), and the poll has
\* started nothing for it
ManuallyConsumed ==
    /\ spOpen
    /\ FirstDir \in dirs
    /\ man[FirstDir].source = "blender"
    /\ manifest_timestamp(man[FirstDir]) = 1
    /\ man[FirstDir].sp_project_file = get_sp_project_file_path_or_temp(World)
    /\ cnt.n[1].started = 0

\* C35: after a manual import has successfully consumed a pending manifest,
\* the poll does not import that same unchanged manifest a second time
C35_NoSecondImport ==
    [][(ManuallyConsumed /\ SpPollWith(HostOk))
         => ~(/\ PollOutcome(HostOk).mdir = FirstDir
              /\ PollOutcome(HostOk).act \in {"reload", "create"})]_vars

-----------------------------------------------------------------------------
(* Two registry updates at the same time *)

\* update_link_registry of the two processes, each as its load followed by its
\* save, in every interleaving
SpecRace ==
    /\ Init
    /\ [][\/ \E s \in {"/a.spp", "/b.spp"}, f \in {"/doc.ext", "/other.ext"} :
               RegLoadSp(s, f, TRUE)
          \/ RegSaveSp
          \/ \E s \in {"/a.spp", "/b.spp"}, f \in {"/doc.ext", "/other.ext"} :
               RegLoadBl(s, f)
          \/ RegSaveBl]_vars

\* registry r2 holds every entry of r1 except those under the keys of the
\* pair (s, f)
OthersKept(r1, r2, s, f) ==
    /\ \A k \in DOMAIN r1.s2b : k # normalize_path_key(s) => r2.s2b[k] = r1.s2b[k]
    /\ \A k \in DOMAIN r1.b2s : k # normalize_path_key(f) => r2.b2s[k] = r1.b2s[k]

\* C36: when the two sides run update_link_registry at the same time for two
\* different document pairs, no update is lost: the save of one side leaves
\* in the registry file every entry that is not under its own pair's keys
C36_NoLostUpdate ==
    [][/\ RegSaveSp => OthersKept(reg, reg', regio.sp.s, regio.sp.f)
       /\ RegSaveBl => OthersKept(reg, reg', regio.bl.s, regio.bl.f)]_vars

-----------------------------------------------------------------------------
(* Is the linked document open on the other side? *)

\* a test that takes any record of a running application for the linked
\* document
any_record_open(sp_running, linked_sp_project, active_any) ==
    sp_running /\ linked_sp_project # "" /\ active_any.exists

\* already_open of GOB_OT_SendToSP.execute; active_any is what
\* find_active_sp_project_info returned (NoInfo for None)
sp_already_open(sp_running, linked_sp_project, active_any) ==
    /\ sp_running
    /\ linked_sp_project # ""
    /\ active_any.exists
    /\ active_any.sp_file # ""
    /\ paths_match(active_any.sp_file, linked_sp_project)

\* should_force_open of GOB_OT_SendToSP.execute
sp_should_force_open(sp_running, linked_sp_project, active_any) ==
    /\ sp_running
    /\ linked_sp_project # ""
    /\ active_any.exists
    /\ active_any.sp_file # ""
    /\ ~paths_match(active_any.sp_file, linked_sp_project)

\* the tail of GOB_OT_SendToSP.execute with the executable found and every
\* process start succeeding: what the send starts
send_open_step(force_new_project, sp_running, linked_sp_project, active_any, open_linked_sp_project, auto_launch_sp) ==
    IF force_new_project THEN "new_instance"
    ELSE IF /\ linked_sp_project # ""
            /\ ~sp_already_open(sp_running, linked_sp_project, active_any)
            /\ \/ sp_should_force_open(sp_running, linked_sp_project, active_any)
               \/ open_linked_sp_project
         THEN IF is_temp_sp_project_file(linked_sp_project)
              THEN IF ~sp_running THEN "launch" ELSE "none"
              ELSE "open_project"
    ELSE IF auto_launch_sp /\ ~sp_running THEN "launch"
    ELSE "none"

\* blender_project_is_open; info is what find_active_blender_info returned
blender_project_is_open(path, info) ==
    /\ path # ""
    /\ info.exists
    /\ info.bl_file # ""
    /\ paths_match(info.bl_file, path)

\* open_linked_blender_file: nothing is started for a document that is open
open_linked_blender_file(path, info) ==
    IF path = "" THEN "none"
    ELSE IF blender_project_is_open(path, info) THEN "none"
    ELSE "launch"

\* active-session records as they may lie in a scanned location at time t:
\* none, or one written just now, max-age ago or a second earlier, naming a
\* document (in either spelling) or another one
NamedAt(t) ==
    {NoInfo} \cup
    {[NoInfo EXCEPT !.exists = TRUE, !.open = TRUE, !.dir = <<"doc", 0>>,
                    !.ts = t - a, !.sp_file = s[1], !.bl_file = s[2]]
        : a \in {1, ACTIVE_SP_INFO_MAX_AGE, ACTIVE_SP_INFO_MAX_AGE + 1},
          s \in {<<"/a.spp", "/doc.ext">>, <<"/A.spp", "/DOC.ext">>,
                 <<"/b.spp", "/other.ext">>}}

\* the mesh-editor send decides what to start for the linked project (one
\* decision is followed per behaviour)
DecideOpenSp ==
    /\ rd.reader = "none"
    /\ \E f1, f2 \in NamedAt(StartTime + ACTIVE_SP_INFO_MAX_AGE + 1),
       sp_running, force_new_project, open_linked_sp_project, auto_launch_sp \in BOOLEAN,
       linked \in {"", "/a.spp", "sp_tmp1"} :
        LET t == StartTime + ACTIVE_SP_INFO_MAX_AGE + 1
            files == <<read_active_sp_info(f1), read_active_sp_info(f2)>>
            active_any == read_latest(files, t, ACTIVE_SP_INFO_MAX_AGE, NoInfo)
        IN Commit([World EXCEPT !.rd =
               [reader |-> "GOB_OT_SendToSP", at |-> t, files |-> files,
                linked |-> linked, force_new |-> force_new_project,
                info |-> active_any,
                already_open |-> sp_already_open(sp_running, linked, active_any),
                step |-> send_open_step(force_new_project, sp_running, linked,
                                        active_any, open_linked_sp_project,
                                        auto_launch_sp)]])

\* the texturing side's send decides whether to start the mesh editor for the
\* linked file
DecideOpenBl ==
    /\ rd.reader = "none"
    /\ \E f1, f2 \in NamedAt(StartTime + ACTIVE_BLENDER_INFO_MAX_AGE + 1),
       linked \in {"", "/doc.ext", "/other.ext"} :
        LET t == StartTime + ACTIVE_BLENDER_INFO_MAX_AGE + 1
            files == <<f1, f2>>
            info == read_latest(files, t, ACTIVE_BLENDER_INFO_MAX_AGE, NoInfo)
        IN Commit([World EXCEPT !.rd =
               [reader |-> "open_linked_blender_file", at |-> t, files |-> files,
                linked |-> linked, force_new |-> FALSE, info |-> info,
                already_open |-> blender_project_is_open(linked, info),
                step |-> open_linked_blender_file(linked, info)]])

SpecOpen ==
    /\ Init
    /\ [][\/ DecideOpenSp
          \/ DecideOpenBl]_vars

\* a record of the last scan that is not older than max-age names the linked
\* document
FreshRecordNames ==
    \E i \in 1..2 :
        /\ rd.files[i].exists
        /\ rd.at - rd.files[i].ts <= ACTIVE_SP_INFO_MAX_AGE
        /\ paths_match(IF rd.reader = "GOB_OT_SendToSP"
                       THEN rd.files[i].sp_file ELSE rd.files[i].bl_file,
                       rd.linked)

\* C37: the mesh-editor send treats the linked texturing document as already
\* open, and then opens or launches nothing for it, only when an
\* active-session record of the texturing side that is not older than max-age
\* names that document; the texturing side skips launching the mesh editor for
\* a linked file only when such a record of the mesh editor names the file;
\* with every record missing or stale the document is treated as not open
C37_OpenOnlyIfFreshNamed ==
    rd.reader \in {"GOB_OT_SendToSP", "open_linked_blender_file"}
      => /\ rd.already_open => FreshRecordNames
         /\ (rd.already_open /\ ~rd.force_new) => rd.step = "none"
         /\ (rd.reader = "open_linked_blender_file" /\ rd.linked # ""
               /\ rd.step = "none") => FreshRecordNames
         /\ (\A i \in 1..2 : \/ ~rd.files[i].exists
                             \/ rd.at - rd.files[i].ts > ACTIVE_SP_INFO_MAX_AGE)
              => ~rd.already_open

\* the send found a stale record naming another project and a younger one that
\* names the linked project in another spelling, and started nothing
C37_OpenInOtherSpelling ==
    /\ rd.reader = "GOB_OT_SendToSP"
    /\ rd.linked = "/a.spp"
    /\ rd.files[1].exists
    /\ rd.files[1].sp_file = "/b.spp"
    /\ rd.at - rd.files[1].ts > ACTIVE_SP_INFO_MAX_AGE
    /\ rd.files[2].sp_file = "/A.spp"
    /\ rd.at - rd.files[2].ts = ACTIVE_SP_INFO_MAX_AGE
    /\ rd.already_open
    /\ rd.step = "none"

-----------------------------------------------------------------------------
(* Live and expired active-session records *)

\* C38: a reader on the other side returns the record of a process whose last
\* write is at most max-age (120) seconds old, so a process whose heartbeat
\* fires on schedule is never taken for absent; and when the last write of a
\* process lies more than max-age seconds back, every reader of its record
\* returns nothing
C38_LiveSeenStoppedExpired ==
    [][/\ (ReadActiveBlender /\ hbBl.exists
             /\ now - hbBl.ts <= ACTIVE_BLENDER_INFO_MAX_AGE)
            => rd'.info = hbBl
       /\ (ReadActiveSp /\ read_active_sp_info(hbSp).exists
             /\ now - hbSp.ts <= ACTIVE_SP_INFO_MAX_AGE)
            => rd'.info = hbSp
       /\ (ReadActiveBlender /\ now - hbBl.ts > ACTIVE_BLENDER_INFO_MAX_AGE)
            => ~rd'.info.exists
       /\ ((ReadActiveSp \/ ResolveActiveSp)
             /\ now - hbSp.ts > ACTIVE_SP_INFO_MAX_AGE)
            => ~rd'.info.exists]_vars

ReloadOutcome(status, o) == on_reload(World, status, o)

\* make_reload_settings(True) and make_reload_settings(False) both return a
\* settings object of the host, so the first call is made with `settings`.
\* the call records one reload-in-place action can show: a preserving call
\* first, and a plain call only once and only after a failure
AllowedCalls ==
    { <<>>,
      <<"preserve">>, <<"preserve", "ok">>, <<"preserve", "failed">>,
      <<"preserve", "failed", "plain">>,
      <<"preserve", "failed", "plain", "ok">>,
      <<"preserve", "failed", "plain", "failed">> }

Outstanding(c) == c # <<>> /\ c[Len(c)] \in {"preserve", "plain"}

ReloadCallsInOrder(v) ==
    /\ v.calls \in AllowedCalls
    /\ v.calls # <<>> => (inProgress' = Outstanding(v.calls))

-----------------------------------------------------------------------------
(* The placeholder path of an unsaved document *)

\* temp_sp_project_file_path() is called in the texturing application
SpTempPath ==
    Commit([World EXCEPT !.temps.sp =
               temp_file_path_cached(temps.sp, sp_get_bridge_root(roots),
                                     temp_sp_project_file_path(spSession))])

\* temp_blender_file_path() is called in the mesh editor
BlTempPath ==
    Commit([World EXCEPT !.temps.bl =
               temp_file_path_cached(temps.bl, bl_get_bridge_root(roots),
                                     temp_blender_file_path(blSession))])

\* the user sets the preference bridge_dir of the mesh editor
BlSetBridgeDir ==
    \E p \in Roots : Commit([World EXCEPT !.roots.pref = p])

SpecTemp ==
    /\ Init
    /\ [][\/ SpTempPath
          \/ BlTempPath
          \/ BlSetBridgeDir
          \/ BlSend
          \/ Tick]_vars

\* C40: within one process the placeholder path is computed once, every later
\* call returns that path, and is_temp_* classifies it as a placeholder from
\* then on, also after the resolved bridge root has changed
C40_PlaceholderStaysTemp ==
    [][/\ temps.sp.name # "" => temps'.sp = temps.sp
       /\ temps.bl.name # "" => temps'.bl = temps.bl
       /\ temps'.sp.name # "" =>
             is_temp_file(temps'.sp, SpTemps, sp_get_bridge_root(roots'))
       /\ temps'.bl.name # "" =>
             is_temp_file(temps'.bl, BlTemps, bl_get_bridge_root(roots'))]_vars

====
